---- MODULE Spec2Model ----
(***************************************************************************)
(* State-machine model of the trading-bot scripts of this repository:      *)
(*   deepseek_bot.py  rate limiter, TwelveData bar fetcher, summary scan   *)
(*   math_bot.py      bar cache, indicator histories, trade scan, loop     *)
(* Time is counted in ticks of 0.1 s, the safety margin that               *)
(* twelve_rate_limit adds to its sleep (deepseek_bot.py line 128).         *)
(***************************************************************************)
EXTENDS Integers, Sequences, FiniteSets, TLC

(***************************************************************************)
(* Program constants                                                       *)
(***************************************************************************)
TicksPerSecond == 10
TWELVE_RATE_LIMIT == 8
TWELVE_WINDOW == 61
SleepMargin == 1

WindowTicks == TWELVE_WINDOW * TicksPerSecond

(***************************************************************************)
(* Bounds of the model                                                     *)
(***************************************************************************)
NumCallers == 2
MaxCalls == 10
NumScanners == 1
MaxScans == 1
MaxTriggers == 1
MaxCycles == 1
MaxErrors == 3
MaxScoring == 1
MaxOrders == 1
MaxLoopRuns == 3
MaxPollDays == 1
MaxLines == 3
MaxPlace == 2

Callers == 1..NumCallers
\* math_bot.py: the bot_loop thread and the thread that serves /trigger
MathThreads == {"loop", "trigger"}
\* the callers that run get_stock_summary
Scanners == 1..NumScanners

\* Amounts by which the wall clock may have advanced between two readings.
ClockSteps == {0, WindowTicks \div 2}

VARIABLES
  clock,          \* last value read from time.time(), in ticks
  twelve_calls,   \* _twelve_calls: retained call timestamps
  twelve_lock,    \* _twelve_lock: 0 when free, else the holding caller
  rpc,            \* position of each caller in twelve_rate_limit
  rnow,           \* local `now` of the caller that holds the lock
  rwake,          \* earliest clock value at which the sleeping caller wakes
  recorded,       \* every timestamp ever appended to _twelve_calls, in order
  slept,          \* whether the admission in progress, or the last one, slept
  script,         \* the script that is running
  scan,           \* deepseek_bot.py: per caller, the state of get_stock_summary
  cache,          \* math_bot.py: INTRADAY_CACHE
  state,          \* math_bot.py: STATE (last_run and the histories' references)
  heap,           \* math_bot.py: the contents of the history list objects
  file,           \* math_bot.py: the contents of trade_state.json
  mt,             \* math_bot.py: per thread, its position and its locals
  lastcall,       \* per symbol, the last completed get_intraday_data call
  evals,          \* per symbol, the evaluations that returned a score
  served,         \* the downloads that raised and those that gave a score, so far
  fn,             \* the function applied to sampled inputs, and what it gave
  ai              \* ai_bot.py: run_bot's locals, the threads, the broker

rlvars_but_rpc == <<clock, twelve_calls, twelve_lock, rnow, rwake, recorded, slept>>
dsvars == <<twelve_calls, twelve_lock, rpc, rnow, rwake, recorded, slept, scan>>
mathvars == <<cache, state, heap, file, mt, lastcall, evals, served>>
vars == <<clock, twelve_calls, twelve_lock, rpc, rnow, rwake, recorded, slept,
          script, scan, cache, state, heap, file, mt, lastcall, evals,
          served, fn, ai>>

Max(a, b) == IF a >= b THEN a ELSE b
Min(a, b) == IF a <= b THEN a ELSE b

(***************************************************************************)
(* deepseek_bot.py: twelve_rate_limit                                      *)
(***************************************************************************)
\* line 125, the list left as it is
PruneNothing(calls, now) == calls

\* line 125: [t for t in _twelve_calls if now - t < TWELVE_WINDOW]
Prune(calls, now) ==
  LET Keep(t) == now - t < WindowTicks IN SelectSeq(calls, Keep)

\* line 128, the sleep that ignores the oldest retained timestamp
SleepForNoWait(calls, now) == 0

\* line 128, the sleep that lasts the safety margin only
SleepForMarginOnly(calls, now) == SleepMargin

\* line 128: TWELVE_WINDOW - (now - _twelve_calls[0]) + 0.1
SleepFor(calls, now) == WindowTicks - (now - calls[1]) + SleepMargin

\* no get_stock_summary call is in progress, and no place_order call
NoScan ==
  [idx |-> 0, summaries |-> <<>>, fetched |-> <<>>, good |-> {},
   returned |-> <<>>, scans |-> 0, order |-> <<>>, price |-> <<>>, orders |-> 0]

\* ai_bot.py is not running
NoAi == [pc |-> "off"]

\* no function has been applied
NoFn == [op |-> "none", arg |-> <<>>, out |-> <<>>]

\* deepseek_bot.py has none of the objects of math_bot.py
NoMath ==
  /\ cache = <<>>
  /\ state = <<>>
  /\ heap = <<>>
  /\ file = <<>>
  /\ mt = [t \in MathThreads |-> [pc |-> "off"]]
  /\ lastcall = <<>>
  /\ evals = <<>>
  /\ served = [errors |-> 0, scoring |-> 0]
  /\ fn = NoFn

InitRL ==
  /\ script = "deepseek_bot"
  /\ NoMath
  /\ ai = NoAi
  /\ scan = [c \in Callers |-> NoScan]
  /\ clock = 0
  /\ twelve_calls = <<>>
  /\ twelve_lock = 0
  /\ rpc = [c \in Callers |-> "idle"]
  /\ rnow = 0
  /\ rwake = 0
  /\ recorded = <<>>
  /\ slept = FALSE

\* a caller enters twelve_rate_limit and waits for the lock
CallRateLimit(c) ==
  /\ rpc[c] = "idle"
  /\ Len(recorded) + Cardinality({d \in Callers : rpc[d] # "idle"}) < MaxCalls
  /\ rpc' = [rpc EXCEPT ![c] = "acquire"]
  /\ UNCHANGED <<clock, twelve_calls, twelve_lock, rnow, rwake, recorded, slept,
                 script, scan, mathvars, fn, ai>>

\* line 123: with _twelve_lock
AcquireLock(c) ==
  /\ rpc[c] = "acquire"
  /\ twelve_lock = 0
  /\ twelve_lock' = c
  /\ rpc' = [rpc EXCEPT ![c] = "prune"]
  /\ UNCHANGED <<clock, twelve_calls, rnow, rwake, recorded, slept, script, scan, mathvars, fn, ai>>

\* lines 124-129: read the clock, prune, and decide whether to sleep
PruneAndCheck(c) ==
  /\ rpc[c] = "prune"
  /\ \E d \in ClockSteps :
       LET now == clock + d
           kept == Prune(twelve_calls, now)
       IN /\ clock' = now
          /\ rnow' = now
          /\ twelve_calls' = kept
          /\ IF Len(kept) >= TWELVE_RATE_LIMIT
               THEN /\ rpc' = [rpc EXCEPT ![c] = "sleep"]
                    /\ rwake' = now + SleepFor(kept, now)
               ELSE /\ rpc' = [rpc EXCEPT ![c] = "append"]
                    /\ rwake' = 0
  /\ slept' = FALSE
  /\ UNCHANGED <<twelve_lock, recorded, script, scan, mathvars, fn, ai>>

\* line 130: time.sleep(sleep_for) returns when asked or later
Sleep(c) ==
  /\ rpc[c] = "sleep"
  /\ \E d \in ClockSteps : clock' = Max(clock, rwake) + d
  /\ slept' = TRUE
  /\ rpc' = [rpc EXCEPT ![c] = "append"]
  /\ UNCHANGED <<twelve_calls, twelve_lock, rnow, rwake, recorded, script, scan, mathvars, fn, ai>>

\* line 132 outside any `with` block: the call is recorded and the lock is
\* never released
AppendCallKeepLock(c) ==
  /\ rpc[c] = "append"
  /\ twelve_calls' = Append(twelve_calls, clock)
  /\ recorded' = Append(recorded, clock)
  /\ rpc' = [rpc EXCEPT ![c] = "admitted"]
  /\ UNCHANGED <<clock, twelve_lock, rnow, rwake, slept, script, scan, mathvars, fn, ai>>

\* line 132: _twelve_calls.append(time.time()), read right after line 124 or
\* right after the sleep returned; then the lock is released
AppendCall(c) ==
  /\ rpc[c] = "append"
  /\ twelve_calls' = Append(twelve_calls, clock)
  /\ recorded' = Append(recorded, clock)
  /\ clock' = clock
  /\ twelve_lock' = 0
  /\ rpc' = [rpc EXCEPT ![c] = "admitted"]
  /\ UNCHANGED <<rnow, rwake, slept, script, scan, mathvars, fn, ai>>

\* twelve_rate_limit returns to a caller that does nothing else
ReturnRateLimit(c) ==
  /\ rpc[c] = "admitted"
  /\ rpc' = [rpc EXCEPT ![c] = "idle"]
  /\ UNCHANGED <<clock, twelve_calls, twelve_lock, rnow, rwake, recorded, slept,
                 script, scan, mathvars, fn, ai>>

NextRL ==
  \E c \in Callers :
    \/ CallRateLimit(c)
    \/ AcquireLock(c)
    \/ PruneAndCheck(c)
    \/ Sleep(c)
    \/ AppendCall(c)
    \/ ReturnRateLimit(c)

SpecRL == InitRL /\ [][NextRL]_vars

\* a thread inside twelve_rate_limit that can take its next step takes it in
\* the end: the scheduler runs every runnable thread, time.sleep returns
Proceeds(c) ==
  \/ AcquireLock(c)
  \/ PruneAndCheck(c)
  \/ Sleep(c)
  \/ AppendCall(c)
  \/ ReturnRateLimit(c)

SpecRLFair == SpecRL /\ \A c \in Callers : WF_vars(Proceeds(c))

(***************************************************************************)
(* Values shared by the scripts                                            *)
(***************************************************************************)
\* Python's None, and a value that is present
None == <<>>
Some(v) == <<v>>

RECURSIVE SumRange(_, _, _)
\* s[lo] + ... + s[hi], by halves
SumRange(s, lo, hi) ==
  IF lo > hi THEN 0
  ELSE IF lo = hi THEN s[lo]
  ELSE SumRange(s, lo, (lo + hi) \div 2) + SumRange(s, (lo + hi) \div 2 + 1, hi)
\* sum(s)
SumSeq(s) == SumRange(s, 1, Len(s))

\* s[-n:]
LastN(s, n) == IF Len(s) <= n THEN s ELSE SubSeq(s, Len(s) - n + 1, Len(s))
\* s[:n] and s[n:]
FirstN(s, n) == IF Len(s) <= n THEN s ELSE SubSeq(s, 1, n)
DropN(s, n) == IF Len(s) <= n THEN <<>> ELSE SubSeq(s, n + 1, Len(s))
\* reversed(s)
Reverse(s) == [i \in 1..Len(s) |-> s[Len(s) + 1 - i]]

\* the first tickers of TICKERS (deepseek_bot.py line 27, math_bot.py line 20)
TICKERS == <<"AAPL", "MSFT">>

(***************************************************************************)
(* deepseek_bot.py: the TwelveData provider and fetch_twelvedata_bars      *)
(* Prices are in cents and volumes in shares, so that float() of a         *)
(* well-formed field is an integer of the model.                           *)
(***************************************************************************)
\* the close and the volume of the k-th minute of a series, oldest first
SeriesClose(k) == IF k % 3 = 0 THEN 10000 + 10 * k - 30 ELSE 10000 + 10 * k
SeriesVolume(k) == 1000 + 100 * (k % 2)

\* "values" of a time_series response with n records, newest first; a field
\* is the text of a number, Some(n), or text that is no number, None
SeriesValues(n) ==
  [i \in 1..n |-> [datetime |-> n + 1 - i,
                   close |-> Some(SeriesClose(n + 1 - i)),
                   volume |-> Some(SeriesVolume(n + 1 - i))]]

\* the same with a close that float() rejects in its oldest record
BrokenValues(n) ==
  [i \in 1..n |-> IF i = n THEN [SeriesValues(n)[i] EXCEPT !.close = None]
                           ELSE SeriesValues(n)[i]]

\* lengths of the series the provider answers with: below the 5 of ma5,
\* and the 20 that ma20 needs (more than the 14 of rsi_period)
SeriesLengths == {3, 20}

\* what requests.get meets: a transport error, a body that is no JSON, the
\* provider's rate-limit answer, a JSON object without "values", values
Responses ==
  {[kind |-> k, values |-> <<>>] :
     k \in {"transport_error", "bad_json", "rate_limited", "no_values"}}
  \cup {[kind |-> "values", values |-> SeriesValues(n)] : n \in SeriesLengths}
  \cup {[kind |-> "values", values |-> BrokenValues(3)]}

\* the result of a piece of code: a value, or an exception on its way out
Returns(v) == [exc |-> FALSE, val |-> v]
Raises == [exc |-> TRUE, val |-> <<>>]

\* lines 160-164: the list comprehension; float() raises ValueError on a
\* field that is no number
ParseBars(values) ==
  IF \E i \in 1..Len(values) : values[i].close = None \/ values[i].volume = None
    THEN Raises
    ELSE Returns([i \in 1..Len(values) |->
                    [time |-> Reverse(values)[i].datetime,
                     close |-> Reverse(values)[i].close[1],
                     volume |-> Reverse(values)[i].volume[1]]])

\* lines 136-166: the body of the try block
FetchBody(resp) ==
  IF resp.kind = "transport_error" THEN Raises          \* requests.get raises
  ELSE IF resp.kind = "rate_limited" THEN Returns(<<>>) \* code == 429
  ELSE IF resp.kind \in {"bad_json", "no_values"}       \* safe_json gives {}
    THEN Returns(<<>>)
  ELSE ParseBars(resp.values)

\* a fetch_twelvedata_bars whose try block has no except clause
FetchUncaught(resp) == FetchBody(resp)

\* lines 134-170: fetch_twelvedata_bars, after twelve_rate_limit returned
FetchTwelvedataBars(resp) ==
  IF FetchBody(resp).exc THEN Returns(<<>>) ELSE FetchBody(resp)

\* lines 172-176: get_intraday_data
DsGetIntradayData(fetch) ==
  IF fetch.exc THEN fetch ELSE Returns(fetch.val)

(***************************************************************************)
(* deepseek_bot.py: compute_technical                                      *)
(* Averages are rounded to the cent; the Wilder averages of the RSI carry  *)
(* three more decimal digits.                                              *)
(***************************************************************************)
RoundDiv(a, b) == (2 * a + b) \div (2 * b)

RECURSIVE Wilder(_, _, _)
\* lines 197-199: avg = (avg * (period - 1) + x) / period, over xs in order
Wilder(avg, xs, period) ==
  IF xs = <<>> THEN avg
  ELSE Wilder((avg * (period - 1) + 1000 * Head(xs)) \div period, Tail(xs), period)

\* lines 189-200: the RSI in hundredths, None with rsi_period closes or fewer
DsRsi(closes, period) ==
  IF Len(closes) <= period THEN None
  ELSE LET deltas == [i \in 1..(Len(closes) - 1) |-> closes[i + 1] - closes[i]]
           gains == [i \in 1..Len(deltas) |-> IF deltas[i] > 0 THEN deltas[i] ELSE 0]
           losses == [i \in 1..Len(deltas) |-> IF deltas[i] < 0 THEN -deltas[i] ELSE 0]
           gain0 == (1000 * SumSeq(FirstN(gains, period))) \div period
           loss0 == (1000 * SumSeq(FirstN(losses, period))) \div period
           avg_gain == Wilder(gain0, DropN(gains, period), period)
           avg_loss == Wilder(loss0, DropN(losses, period), period)
       IN Some(IF avg_loss = 0 THEN 10000
               ELSE IF avg_gain = 0 THEN 0
               ELSE 10000 - (10000 * avg_loss) \div (avg_gain + avg_loss))

\* lines 178-216: None without data, else the dict of indicators
ComputeTechnical(data) ==
  IF data = <<>> THEN None
  ELSE LET closes == [i \in 1..Len(data) |-> data[i].close]
           volumes == [i \in 1..Len(data) |-> data[i].volume]
           last == closes[Len(closes)]
           prev == IF Len(closes) > 1 THEN closes[Len(closes) - 1] ELSE last
           avg_vol30 == IF Len(volumes) >= 30
                          THEN SumSeq(LastN(volumes, 30)) \div 30
                          ELSE volumes[Len(volumes)]
       IN Some([price |-> last,
                change |-> last - prev,
                ma5 |-> IF Len(closes) >= 5
                          THEN Some(RoundDiv(SumSeq(LastN(closes, 5)), 5)) ELSE None,
                ma20 |-> IF Len(closes) >= 20
                           THEN Some(RoundDiv(SumSeq(LastN(closes, 20)), 20)) ELSE None,
                rsi |-> DsRsi(closes, 14),
                volume |-> volumes[Len(volumes)],
                vol_change |-> IF avg_vol30 # 0
                                 THEN ((volumes[Len(volumes)] - avg_vol30) * 1000) \div avg_vol30
                                 ELSE 0])

(***************************************************************************)
(* deepseek_bot.py: get_stock_summary, run by every caller                 *)
(***************************************************************************)
\* lines 226-239: the dict appended for ticker t (its technical fields)
Summary(t, tech) ==
  [symbol |-> t, price |-> tech.price, change |-> tech.change,
   volume |-> tech.volume, ma5 |-> tech.ma5, ma20 |-> tech.ma20,
   rsi |-> tech.rsi, vol_change |-> tech.vol_change]

\* line 226, an insert at the front of the list
PrependSummary(summaries, summary) == <<summary>> \o summaries

\* line 226: summaries.append(...)
AppendSummary(summaries, summary) == Append(summaries, summary)

\* _twelve_calls when the scan starts: empty, or full of calls just made
InitDS ==
  /\ script = "deepseek_bot"
  /\ NoMath
  /\ ai = NoAi
  /\ scan = [c \in Callers |-> NoScan]
  /\ clock = 0
  /\ twelve_calls \in {<<>>, [i \in 1..TWELVE_RATE_LIMIT |-> 0]}
  /\ recorded = twelve_calls
  /\ twelve_lock = 0
  /\ rpc = [c \in Callers |-> "idle"]
  /\ rnow = 0
  /\ rwake = 0
  /\ slept = FALSE

\* the calls of get_stock_summary made so far
ScansStarted ==
  LET RECURSIVE Count(_)
      Count(n) == IF n = 0 THEN 0
                  ELSE Count(n - 1) + scan[n].scans + (IF rpc[n] = "idle" THEN 0 ELSE 1)
  IN Count(NumCallers)

\* lines 219-220: get_stock_summary(TICKERS) is called
StartScan(c) ==
  /\ script = "deepseek_bot"
  /\ rpc[c] = "idle"
  /\ c \in Scanners
  /\ ScansStarted < MaxScans
  /\ scan[c].order = None
  /\ scan' = [scan EXCEPT ![c] = [NoScan EXCEPT !.idx = 1, !.scans = scan[c].scans,
                                                 !.orders = scan[c].orders]]
  /\ rpc' = [rpc EXCEPT ![c] = "next"]
  /\ UNCHANGED <<rlvars_but_rpc, script, mathvars, fn, ai>>

\* lines 136-137, a fetch that goes to the provider without asking
\* twelve_rate_limit
BeginFetchNoLimit(c) ==
  /\ rpc[c] = "next"
  /\ scan[c].idx <= Len(TICKERS)
  /\ rpc' = [rpc EXCEPT ![c] = "admitted"]
  /\ UNCHANGED <<rlvars_but_rpc, script, scan, mathvars, fn, ai>>

\* lines 221-223, 179, 173, 136: the next ticker reaches twelve_rate_limit
BeginFetch(c) ==
  /\ rpc[c] = "next"
  /\ scan[c].idx <= Len(TICKERS)
  /\ rpc' = [rpc EXCEPT ![c] = "acquire"]
  /\ UNCHANGED <<rlvars_but_rpc, script, scan, mathvars, fn, ai>>

\* the calls of place_order that reached the BUY path so far
OrdersStarted ==
  LET RECURSIVE Count(_)
      Count(n) == IF n = 0 THEN 0 ELSE Count(n - 1) + scan[n].orders
  IN Count(NumCallers)

\* lines 339-340, 173, 136: place_order(symbol, "BUY") or "STRONG BUY" asks
\* for the bars of the symbol, which reaches twelve_rate_limit
BuyFetch(c) ==
  /\ script = "deepseek_bot"
  /\ rpc[c] = "idle"
  /\ scan[c].order = None
  /\ OrdersStarted < MaxOrders
  /\ \E i \in 1..Len(TICKERS) :
       scan' = [scan EXCEPT ![c].order = Some(TICKERS[i]), ![c].price = None,
                            ![c].orders = @ + 1]
  /\ rpc' = [rpc EXCEPT ![c] = "acquire"]
  /\ UNCHANGED <<rlvars_but_rpc, script, mathvars, fn, ai>>

\* lines 341-346 and what follows: the price is the last close, 0 without
\* bars; no later line of place_order asks for bars
BuyPrice(c) ==
  /\ rpc[c] = "fetched"
  /\ scan[c].order # None
  /\ LET intraday == DsGetIntradayData(scan[c].fetched[1].res).val
     IN scan' = [scan EXCEPT
                   ![c].order = None,
                   ![c].fetched = None,
                   ![c].price = Some(IF intraday # <<>>
                                       THEN intraday[Len(intraday)].close ELSE 0)]
  /\ rpc' = [rpc EXCEPT ![c] = "idle"]
  /\ UNCHANGED <<rlvars_but_rpc, script, mathvars, fn, ai>>

\* lines 138-170: the request and what fetch_twelvedata_bars makes of it
Request(c) ==
  /\ rpc[c] = "admitted"
  /\ scan[c].idx >= 1 \/ scan[c].order # None
  /\ \E resp \in Responses :
       scan' = [scan EXCEPT ![c].fetched =
                  Some([kind |-> resp.kind, res |-> FetchTwelvedataBars(resp)])]
  /\ rpc' = [rpc EXCEPT ![c] = "fetched"]
  /\ UNCHANGED <<rlvars_but_rpc, script, mathvars, fn, ai>>

\* lines 222-242: the rest of the loop body, inside its try block
Summarize(c) ==
  /\ rpc[c] = "fetched"
  /\ scan[c].order = None
  /\ LET t == TICKERS[scan[c].idx]
         data == DsGetIntradayData(scan[c].fetched[1].res)
         tech == IF data.exc THEN None ELSE ComputeTechnical(data.val)
     IN scan' = [scan EXCEPT
                   ![c].idx = @ + 1,
                   ![c].fetched = None,
                   ![c].good = IF tech = None THEN @ ELSE @ \cup {t},
                   ![c].summaries =
                      IF tech = None THEN @ ELSE AppendSummary(@, Summary(t, tech[1]))]
  /\ rpc' = [rpc EXCEPT ![c] = "next"]
  /\ UNCHANGED <<rlvars_but_rpc, script, mathvars, fn, ai>>

\* line 243: return summaries
EndScan(c) ==
  /\ rpc[c] = "next"
  /\ scan[c].idx > Len(TICKERS)
  /\ scan' = [scan EXCEPT ![c].returned = Some(scan[c].summaries),
                          ![c].scans = @ + 1]
  /\ rpc' = [rpc EXCEPT ![c] = "idle"]
  /\ UNCHANGED <<rlvars_but_rpc, script, mathvars, fn, ai>>

NextDS ==
  \E c \in Callers :
    \/ StartScan(c)
    \/ BeginFetch(c)
    \/ AcquireLock(c)
    \/ PruneAndCheck(c)
    \/ Sleep(c)
    \/ AppendCall(c)
    \/ Request(c)
    \/ Summarize(c)
    \/ EndScan(c)
    \/ BuyFetch(c)
    \/ BuyPrice(c)

SpecDS == InitDS /\ [][NextDS]_vars

(***************************************************************************)
(* math_bot.py: the indicators                                             *)
(* Prices are in cents.  Raw indicator values are kept to one decimal:     *)
(* macd and atr in tenths of a cent, rsi in tenths of a point, the volume  *)
(* change in tenths of a share.  Scores and normalised values are in       *)
(* hundredths of a point (0..10000), weights in ten-thousandths.           *)
(***************************************************************************)
Abs(x) == IF x < 0 THEN -x ELSE x
\* a clamp that lets every value through
ClipNone(x, lo, hi) == x

\* max(lo, min(x, hi))
Clip(x, lo, hi) == Max(lo, Min(x, hi))

RECURSIVE EmaLoop(_, _, _)
\* lines 103-104: ema_val = price * k + ema_val * (1 - k), k = 2 / (period + 1)
EmaLoop(ema_val, prices, period) ==
  IF prices = <<>> THEN ema_val
  ELSE EmaLoop((2 * 1000 * Head(prices) + (period - 1) * ema_val) \div (period + 1),
               Tail(prices), period)

\* lines 98-105: ema, in thousandths of a cent; None with too few values.
\* The seed is the mean of values[-period:], the loop runs over
\* values[-period+1:]
Ema(values, period) ==
  IF values = <<>> \/ Len(values) < period THEN None
  ELSE Some(EmaLoop((1000 * SumSeq(LastN(values, period))) \div period,
                    IF period = 1 THEN values ELSE LastN(values, period - 1),
                    period))

\* lines 107-112: macd_value, in thousandths of a cent
MacdValue(values, fast, slow) ==
  IF Ema(values, fast) = None \/ Ema(values, slow) = None THEN 0
  ELSE Ema(values, fast)[1] - Ema(values, slow)[1]

\* an rsi that is neutral whatever the closes
RsiNeutral(values, period) == 500

\* lines 114-128: rsi, in tenths of a point
Rsi(values, period) ==
  IF Len(values) <= period THEN 500
  ELSE LET deltas == [i \in 1..(Len(values) - 1) |-> values[i + 1] - values[i]]
           gains == [i \in 1..Len(deltas) |-> IF deltas[i] > 0 THEN deltas[i] ELSE 0]
           losses == [i \in 1..Len(deltas) |-> IF deltas[i] < 0 THEN -deltas[i] ELSE 0]
           gain0 == (1000 * SumSeq(FirstN(gains, period))) \div period
           loss0 == (1000 * SumSeq(FirstN(losses, period))) \div period
           avg_gain == Wilder(gain0, DropN(gains, period), period)
           avg_loss == Wilder(loss0, DropN(losses, period), period)
       IN IF avg_loss = 0 THEN 1000
          ELSE 1000 - (1000 * avg_loss) \div (avg_gain + avg_loss)

RECURSIVE IsqrtFrom(_, _)
IsqrtFrom(n, r) == IF (r + 1) * (r + 1) > n THEN r ELSE IsqrtFrom(n, r + 1)
RECURSIVE Isqrt(_)
\* the integer square root
Isqrt(n) == IF n < 4 THEN IsqrtFrom(n, 0) ELSE IsqrtFrom(n, 2 * Isqrt(n \div 4))

\* A history list is held as its runs of equal values, oldest first:
\* <<[v |-> value, n |-> times], ...>>, neighbouring runs of different values
HLen(h) == SumSeq([i \in 1..Len(h) |-> h[i].n])
\* hist.append(x)
HAppend(h, x) ==
  IF h # <<>> /\ h[Len(h)].v = x THEN [h EXCEPT ![Len(h)].n = @ + 1]
  ELSE Append(h, [v |-> x, n |-> 1])
\* hist.pop(0) of a list that is not empty
HPopFirst(h) == IF h[1].n > 1 THEN [h EXCEPT ![1].n = @ - 1] ELSE Tail(h)
\* the list of n times x, and of x followed by n times y
HRepeat(x, n) == IF n = 0 THEN <<>> ELSE <<[v |-> x, n |-> n]>>
HOneThen(x, y, n) == IF x = y THEN HRepeat(x, n + 1) ELSE <<[v |-> x, n |-> 1]>> \o HRepeat(y, n)

\* statistics.mean, to the unit of the values
Mean(h) == SumSeq([i \in 1..Len(h) |-> h[i].v * h[i].n]) \div HLen(h)

\* the sum of the squared deviations from the mean
SumSqDev(h) ==
  LET m == Mean(h)
  IN SumSeq([i \in 1..Len(h) |-> h[i].n * (h[i].v - m) * (h[i].v - m)])

\* statistics.pstdev, in hundredths of the unit of the values; 0 exactly
\* when all values are equal
Pstdev100(h) ==
  IF Len(h) = 1 THEN 0
  ELSE Max(1, IF SumSqDev(h) <= 200000
                THEN Isqrt((10000 * SumSqDev(h)) \div HLen(h))
                ELSE 100 * Isqrt(SumSqDev(h) \div HLen(h)))

\* lines 130-135: z_clip with clip = 3; std100 is the deviation in hundredths
ZClip(x, mean, std100) ==
  IF std100 = 0 THEN 5000
  ELSE ((Clip(((x - mean) * 10000) \div std100, -300, 300) + 300) * 10000) \div 600

\* a normalize_indicator that never takes a deviation for 0
NormalizeAlwaysSpread(value, history) ==
  IF history = <<>> THEN 5000
  ELSE ZClip(value, Mean(history), Max(1, Pstdev100(history)))

\* lines 137-142: normalize_indicator
NormalizeIndicator(value, history) ==
  IF history = <<>> THEN 5000
  ELSE ZClip(value, Mean(history), IF HLen(history) > 1 THEN Pstdev100(history) ELSE 0)

\* statistics.median, doubled
Median2(xs) ==
  LET n == Len(xs)
      Rank(i) == Cardinality({j \in 1..n : xs[j] < xs[i] \/ (xs[j] = xs[i] /\ j < i)}) + 1
      At(r) == xs[CHOOSE i \in 1..n : Rank(i) = r]
  IN IF n % 2 = 1 THEN 2 * At((n + 1) \div 2) ELSE At(n \div 2) + At(n \div 2 + 1)

\* lines 158-159: the ATR in tenths of a cent, the mean of the last 14 true
\* ranges or of all when they are fewer, 0 when there is none
Atr(data) ==
  LET closes == [i \in 1..Len(data) |-> data[i].close]
      highs == [i \in 1..Len(data) |-> data[i].high]
      lows == [i \in 1..Len(data) |-> data[i].low]
      trs == [i \in 1..(Len(data) - 1) |->
                Max(highs[i + 1] - lows[i + 1],
                    Max(Abs(highs[i + 1] - closes[i]), Abs(lows[i + 1] - closes[i])))]
  IN IF trs # <<>> THEN (10 * SumSeq(LastN(trs, 14))) \div Min(14, Len(trs)) ELSE 0

\* lines 149-168: the raw indicators of a bar sequence of at least 2 bars
RawIndicators(data) ==
  LET closes == [i \in 1..Len(data) |-> data[i].close]
      vols == [i \in 1..Len(data) |-> data[i].volume]
      vol_recent == IF Len(vols) >= 120 THEN LastN(vols, 120) ELSE vols
      vol_med2 == Median2(vol_recent)
  IN [macd |-> (MacdValue(closes, 8, 21) + MacdValue(closes, 12, 26)) \div 200,
      rsi |-> Rsi(closes, 14),
      vol |-> IF vol_med2 # 0 THEN 5 * (2 * vols[Len(vols)] - vol_med2) ELSE 0,
      atr |-> Atr(data)]

\* the keys of a symbol's histories, in the order of the update loop (line 199)
KEYS == <<"macd", "rsi", "vol", "atr">>

\* line 184: trend_strength, in thousandths
TrendStrength(raw) ==
  Clip(IF raw.atr # 0 THEN (Abs(raw.macd) * 1000) \div raw.atr ELSE 0, 0, 1000)

\* weights whose RSI share grows with the trend
WeightsRsiRising(ts) ==
  LET w_trend == 2000 + 4 * ts
      w_rsi == 2500 + (25 * ts) \div 10
      w_vol == 2000 - (5 * ts) \div 10
      w_atr == 10000 - (w_trend + w_rsi + w_vol)
      sum == w_trend + w_rsi + w_vol + w_atr
  IN [macd |-> (w_trend * 10000) \div sum, rsi |-> (w_rsi * 10000) \div sum,
      vol |-> (w_vol * 10000) \div sum, atr |-> (w_atr * 10000) \div sum]

\* lines 187-192: the weights, renormalised
Weights(ts) ==
  LET w_trend == 2000 + 4 * ts
      w_rsi == 5000 - (25 * ts) \div 10
      w_vol == 2000 - (5 * ts) \div 10
      w_atr == 10000 - (w_trend + w_rsi + w_vol)
      sum == w_trend + w_rsi + w_vol + w_atr
  IN [macd |-> (w_trend * 10000) \div sum, rsi |-> (w_rsi * 10000) \div sum,
      vol |-> (w_vol * 10000) \div sum, atr |-> (w_atr * 10000) \div sum]

\* lines 178-196: the score of raw values against the histories hist[key]
Score(raw, hist) ==
  LET w == Weights(TrendStrength(raw))
      N(k) == NormalizeIndicator(raw[k], hist[k])
  IN Clip((N("macd") * w.macd + N("rsi") * w.rsi + N("vol") * w.vol + N("atr") * w.atr)
            \div 10000, 0, 10000)

\* lines 214-220: calculate_position_size; price = 0 raises ZeroDivisionError
CalculatePositionSize(price, atr, score) ==
  IF price = 0 THEN Raises
  ELSE LET base_qty == 1000000 \div price
           risk_factor == Clip(1000000 \div atr, 200, 1500)
           score_factor == 500 + score \div 10
       IN Returns(Max(1, (base_qty * risk_factor * score_factor) \div 1000000))

(***************************************************************************)
(* math_bot.py: what yf.download answers                                   *)
(***************************************************************************)
\* the k-th of n one-minute rows: "A" rises, "B" falls, "Z" is "A" with a
\* last close of 0
RowClose(shape, k, n) ==
  IF shape = "Z" /\ k = n THEN 0
  ELSE (IF shape = "B" THEN 10000 - 10 * k ELSE 10000 + 10 * k)
       - (IF k % 3 = 0 THEN 30 ELSE 0)

Row(shape, k, n) ==
  [time |-> k,
   close |-> RowClose(shape, k, n),
   high |-> RowClose(shape, k, n) + 5,
   low |-> Max(0, RowClose(shape, k, n) - 5),
   volume |-> 1000 + 100 * (k % 2)]

\* lines 80-88: the bars of a download of n rows
Bars(shape, n) == [k \in 1..n |-> Row(shape, k, n)]

(***************************************************************************)
(* math_bot.py: the state of the service                                   *)
(***************************************************************************)
INTRADAY_TTL == 30
RETRIES == 3
MIN_BARS == 30
HISTORY_CAP == 200
LOOP_NAP == 60
HALF_HOUR == 1800
ACCOUNT_EQUITY == 100000
DAILY_MAX_LOSS_PCT == 3

TtlTicks == INTRADAY_TTL * TicksPerSecond
HourTicks == 60 * 60 * TicksPerSecond
DayTicks == 24 * HourTicks
\* lines 26-27
MARKET_OPEN == (9 * 60 + 30) * 60 * TicksPerSecond
MARKET_CLOSE == 16 * 60 * 60 * TicksPerSecond

\* the service starts a quarter of a minute before the market opens
StartClock == MARKET_OPEN - TtlTicks \div 2
\* what the clock gains between two readings of it
MathClockSteps == {0, TtlTicks \div 2}

Symbols == {TICKERS[i] : i \in 1..Len(TICKERS)}
KeySet == {KEYS[i] : i \in 1..Len(KEYS)}
\* the history lists: those loaded from the file, those a thread created
Ids == (MathThreads \cup {"file"}) \X Symbols \X KeySet

TimeOfDay(t) == t % DayTicks
HourOf(t) == TimeOfDay(t) \div HourTicks
\* lines 269 and 225, a test that never finds the market closed
ClosedNever(t) == FALSE
\* now < MARKET_OPEN or now > MARKET_CLOSE
Closed(t) == TimeOfDay(t) < MARKET_OPEN \/ TimeOfDay(t) > MARKET_CLOSE


\* what yf.download answers
YfOutcomes == {"error", "rate_limited", "empty", "A", "Z"}
\* line 79: the download raises or returns a frame.  A frame, and the list
\* of bars built from it, is held as the shape and the number of its rows
Download(out) ==
  IF out \in {"error", "rate_limited"} THEN Raises
  ELSE IF out = "empty" THEN Returns([shape |-> "A", rows |-> 0])
  ELSE Returns([shape |-> out, rows |-> MIN_BARS])

\* the empty list of bars
NoBars == [shape |-> "A", rows |-> 0]
\* lines 80-88: the bars of a frame, one per row
BarsOf(frame) == Bars(frame.shape, frame.rows)
\* line 89: if bars
HasBars(frame) == frame.rows > 0
\* the frames with bars enough for a score, and the raw indicators
\* (lines 149-168) of each
ScoringFrames == {[shape |-> sh, rows |-> MIN_BARS] : sh \in {"A", "B", "Z"}}
RawTable == [f \in ScoringFrames |-> RawIndicators(BarsOf(f))]
LastClose == [f \in ScoringFrames |-> BarsOf(f)[f.rows].close]

\* a loaded state file: the histories of the first ticker, one value of a
\* rising series and then those of a falling one
PreloadedLen == HISTORY_CAP - 1
PreloadedSymbols == {TICKERS[1]}
PreloadedHistory(k) ==
  HOneThen(RawTable[[shape |-> "A", rows |-> MIN_BARS]][k],
           RawTable[[shape |-> "B", rows |-> MIN_BARS]][k], PreloadedLen - 1)

NoRefs == [k \in KeySet |-> None]

\* line 47: the state load_state makes up when there is no file
EmptyState ==
  [last_run |-> None, daily_loss |-> 0, histories |-> [s \in Symbols |-> None]]
\* a state file whose text is no JSON document, as is a file cut short
CorruptFile == Some([text |-> "cut short"])
IsJson(contents) == "text" \notin DOMAIN contents[1]
\* the file written when only PreloadedSymbols had been scored
LoadedFile ==
  Some([last_run |-> None, daily_loss |-> 0,
        histories |->
          [s \in Symbols |->
             IF s \in PreloadedSymbols
               THEN Some([k \in KeySet |-> Some(PreloadedHistory(k))])
               ELSE None]])

\* lines 43-47: load_state, given the contents of STATE_FILE (None without
\* a file); json.load raises JSONDecodeError on text that is no JSON
LoadState(contents) ==
  IF contents = None THEN Returns(EmptyState)
  ELSE IF ~IsJson(contents) THEN Raises
  ELSE Returns(contents[1])

\* a thread that is not inside any call
Idle ==
  [pc |-> "idle", ignore |-> FALSE, runs |-> 0, wake |-> 0, loopnow |-> 0,
   idx |-> 0, now |-> 0, attempt |-> 0, hit |-> FALSE, stale |-> None,
   snap |-> None, data |-> NoBars, raw |-> None, score |-> 0, price |-> 0,
   lref |-> NoRefs, k |-> 0, scored |-> {}, executed |-> <<>>, ret |-> None,
   saving |-> None, budget |-> MaxCycles]

\* lines 50-52: json.dump(STATE), the lists written out
Dump(st, h) ==
  [last_run |-> st.last_run,
   daily_loss |-> st.daily_loss,
   histories |->
     [s \in Symbols |->
        IF st.histories[s] = None THEN None
        ELSE Some([k \in KeySet |->
                     IF st.histories[s][1][k] = None THEN None
                     ELSE Some(h[st.histories[s][1][k][1]])])]]

\* the list objects that STATE or a thread's locals still refer to
Referenced(st, m) ==
  {id \in Ids :
     \/ /\ st.histories[id[2]] # None
        /\ st.histories[id[2]][1][id[3]] = Some(id)
     \/ \E t \in MathThreads : m[t].lref[id[3]] = Some(id)}

\* the heap without the lists nothing refers to
Collect(h, st, m) ==
  [id \in Ids |-> IF id \in Referenced(st, m) THEN h[id] ELSE <<>>]

\* lines 43-47, 55: STATE = load_state(), from a file written when only the
\* first ticker had been scored, PreloadedLen times
InitMath ==
  /\ script = "math_bot"
  /\ scan = [c \in Callers |-> NoScan]
  /\ twelve_calls = <<>>
  /\ recorded = <<>>
  /\ twelve_lock = 0
  /\ rpc = [c \in Callers |-> "idle"]
  /\ rnow = 0
  /\ rwake = 0
  /\ slept = FALSE
  /\ clock = StartClock
  /\ cache = [s \in Symbols |-> None]
  /\ state = [last_run |-> None, daily_loss |-> 0,
              histories |->
                [s \in Symbols |->
                   IF s \in PreloadedSymbols
                     THEN Some([k \in KeySet |-> Some(<<"file", s, k>>)])
                     ELSE None]]
  /\ heap = [id \in Ids |->
               IF id[1] = "file" /\ id[2] \in PreloadedSymbols
                 THEN PreloadedHistory(id[3]) ELSE <<>>]
  /\ file = Some(Dump(state, heap))
  /\ mt = [t \in MathThreads |-> IF t = "loop" THEN [Idle EXCEPT !.pc = "bl_top"] ELSE Idle]
  /\ lastcall = [s \in Symbols |-> None]
  /\ evals = [s \in Symbols |-> 0]
  /\ served = [errors |-> 0, scoring |-> 0]
  /\ fn = NoFn
  /\ ai = NoAi

(***************************************************************************)
(* math_bot.py: get_intraday_data                                          *)
(***************************************************************************)
\* the symbol a thread is evaluating
Sym(t) == TICKERS[mt[t].idx]

\* line 75, a test that never finds the entry fresh
FreshNever(now, ts) == FALSE

\* line 75: now - ts < INTRADAY_TTL
Fresh(now, ts) == now - ts < TtlTicks

\* the record of a call that returns: the time it read at line 71, the
\* downloads it started, whether it wrote the cache
CallRecord(now, fetches, wrote) ==
  [start |-> now, fetches |-> fetches, wrote |-> wrote]

\* what a returning call keeps of the call that had returned last when it
\* began: that call, if no call for the symbol returned in between and the
\* two line-71 times are less than the TTL apart
Paired(snap, s, now) ==
  IF snap # None /\ lastcall[s] = snap /\ now - snap[1].start < TtlTicks
    THEN snap ELSE None

\* lines 71-76: read the clock and the cache; a fresh entry is returned
GidStart(t) ==
  /\ mt[t].pc = "gid_start"
  /\ LET s == Sym(t)
         now == clock
         cached == cache[s]
         seen == IF cached = None THEN None ELSE Some(cached[1].ts)
     IN IF cached # None /\ Fresh(now, cached[1].ts)
          THEN /\ mt' = [mt EXCEPT ![t].pc = "cts_check", ![t].now = now,
                                   ![t].data = cached[1].data, ![t].hit = TRUE,
                                   ![t].attempt = 0, ![t].stale = seen,
                                   ![t].snap = Paired(lastcall[s], s, now)]
               /\ lastcall' = [lastcall EXCEPT ![s] = Some(CallRecord(now, 0, FALSE))]
          ELSE /\ mt' = [mt EXCEPT ![t].pc = "gid_try", ![t].now = now,
                                   ![t].attempt = 0, ![t].hit = FALSE,
                                   ![t].stale = seen, ![t].snap = lastcall[s]]
               /\ lastcall' = lastcall
  /\ UNCHANGED <<dsvars, fn, ai, script, clock, cache, state, heap, file, evals, served>>

\* lines 77-79: the next attempt sends its request; lines 94-95: after the
\* last attempt the call returns []
GidTry(t) ==
  /\ mt[t].pc = "gid_try"
  /\ IF mt[t].attempt < RETRIES
       THEN /\ mt' = [mt EXCEPT ![t].pc = "gid_inflight", ![t].attempt = @ + 1]
            /\ lastcall' = lastcall
       ELSE /\ mt' = [mt EXCEPT ![t].pc = "cts_check", ![t].data = NoBars,
                                ![t].snap = Paired(@, Sym(t), mt[t].now)]
            /\ lastcall' = [lastcall EXCEPT ![Sym(t)] =
                              Some(CallRecord(mt[t].now, mt[t].attempt, FALSE))]
  /\ UNCHANGED <<dsvars, fn, ai, script, clock, cache, state, heap, file, evals, served>>

\* lines 89-90, a write that does not look whether there are bars
StoreAlways(entries, s, bars, now) ==
  [entries EXCEPT ![s] = Some([data |-> bars, ts |-> now])]

\* lines 89-90: if bars: INTRADAY_CACHE[symbol] = (bars, now)
Store(entries, s, bars, now) ==
  IF HasBars(bars)
    THEN [entries EXCEPT ![s] = Some([data |-> bars, ts |-> now])]
    ELSE entries

\* lines 79-93: the answer of yf.download.  An exception is swallowed and,
\* after time.sleep(delay), the next attempt is due; bars are cached when
\* there are any, and returned
GidResponse(t) ==
  /\ mt[t].pc = "gid_inflight"
  /\ \E out \in YfOutcomes :
       LET r == Download(out)
           s == Sym(t)
       IN IF r.exc
            THEN /\ served.errors < MaxErrors
                 /\ served' = [served EXCEPT !.errors = @ + 1]
                 /\ mt' = [mt EXCEPT ![t].pc = "gid_try"]
                 /\ UNCHANGED <<cache, lastcall>>
            ELSE /\ r.val.rows >= MIN_BARS => served.scoring < MaxScoring
                 /\ served' = IF r.val.rows >= MIN_BARS
                                THEN [served EXCEPT !.scoring = @ + 1] ELSE served
                 /\ cache' = Store(cache, s, r.val, mt[t].now)
                 /\ mt' = [mt EXCEPT ![t].pc = "cts_check", ![t].data = r.val,
                                     ![t].snap = Paired(@, s, mt[t].now)]
                 /\ lastcall' = [lastcall EXCEPT ![s] =
                                   Some(CallRecord(mt[t].now, mt[t].attempt, HasBars(r.val)))]
  /\ UNCHANGED <<dsvars, fn, ai, script, clock, state, heap, file, evals>>

(***************************************************************************)
(* math_bot.py: compute_technical_smart                                    *)
(***************************************************************************)
\* the list a thread is updating
Ref(t) == mt[t].lref[KEYS[mt[t].k]][1]

\* the locals of a get_intraday_data call, forgotten
Forget(rec) ==
  [rec EXCEPT !.now = 0, !.attempt = 0, !.hit = FALSE, !.stale = None,
              !.snap = None, !.data = NoBars]

\* lines 146-196: no summary without MIN_BARS bars; otherwise the raw
\* indicators, the history lists (those of STATE, or new empty ones) and
\* the score against them
CtsCheck(t) ==
  /\ mt[t].pc = "cts_check"
  /\ LET s == Sym(t)
         data == mt[t].data
     IN IF ~HasBars(data) \/ data.rows < MIN_BARS
          THEN /\ mt' = [mt EXCEPT ![t] = [Forget(@) EXCEPT !.pc = "et_next",
                                                             !.idx = @ + 1]]
               /\ heap' = heap
          ELSE LET raw == RawTable[data]
                   histories == state.histories[s]
                   Known(k) == histories # None /\ histories[1][k] # None
                   refs == [k \in KeySet |->
                              IF Known(k) THEN histories[1][k] ELSE Some(<<t, s, k>>)]
                   h1 == [id \in Ids |->
                            IF id[1] = t /\ id[2] = s /\ ~Known(id[3]) THEN <<>>
                            ELSE heap[id]]
                   hist == [k \in KeySet |-> h1[refs[k][1]]]
               IN /\ mt' = [mt EXCEPT ![t] =
                              [Forget(@) EXCEPT !.pc = "upd_append", !.k = 1,
                                                !.raw = Some(raw), !.lref = refs,
                                                !.score = Score(raw, hist),
                                                !.price = LastClose[data]]]
                  /\ heap' = h1
  /\ UNCHANGED <<dsvars, fn, ai, script, clock, cache, state, file, lastcall, evals, served>>

\* line 201: len(hist) > 200
OverCap(hist) == HLen(hist) > HISTORY_CAP

\* line 200: hist.append(val)
UpdAppend(t) ==
  /\ mt[t].pc = "upd_append"
  /\ heap' = [heap EXCEPT ![Ref(t)] = HAppend(@, mt[t].raw[1][KEYS[mt[t].k]])]
  /\ mt' = [mt EXCEPT ![t].pc = "upd_len"]
  /\ UNCHANGED <<dsvars, fn, ai, script, clock, cache, state, file, lastcall, evals, served>>

\* line 201: if len(hist) > 200
UpdLen(t) ==
  /\ mt[t].pc = "upd_len"
  /\ mt' = [mt EXCEPT ![t].pc = IF OverCap(heap[Ref(t)]) THEN "upd_pop" ELSE "upd_sym"]
  /\ UNCHANGED <<dsvars, fn, ai, script, clock, cache, state, heap, file, lastcall, evals, served>>

\* line 201: hist.pop(0)
UpdPop(t) ==
  /\ mt[t].pc = "upd_pop"
  /\ heap[Ref(t)] # <<>>
  /\ heap' = [heap EXCEPT ![Ref(t)] = HPopFirst(@)]
  /\ mt' = [mt EXCEPT ![t].pc = "upd_sym"]
  /\ UNCHANGED <<dsvars, fn, ai, script, clock, cache, state, file, lastcall, evals, served>>

\* line 202: if symbol not in STATE["histories"]
UpdSym(t) ==
  /\ mt[t].pc = "upd_sym"
  /\ mt' = [mt EXCEPT ![t].pc = IF state.histories[Sym(t)] = None
                                  THEN "upd_mk" ELSE "upd_store"]
  /\ UNCHANGED <<dsvars, fn, ai, script, clock, cache, state, heap, file, lastcall, evals, served>>

\* line 202: STATE["histories"][symbol] = {}
UpdMk(t) ==
  /\ mt[t].pc = "upd_mk"
  /\ state' = [state EXCEPT !.histories[Sym(t)] = Some(NoRefs)]
  /\ mt' = [mt EXCEPT ![t].pc = "upd_store"]
  /\ heap' = Collect(heap, state', mt')
  /\ UNCHANGED <<dsvars, fn, ai, script, clock, cache, file, lastcall, evals, served>>

\* line 203: STATE["histories"][symbol][key] = hist, then the next key or,
\* lines 205-211, the summary is returned
UpdStore(t) ==
  /\ mt[t].pc = "upd_store"
  /\ state.histories[Sym(t)] # None
  /\ state' = [state EXCEPT !.histories[Sym(t)] =
                 Some([@[1] EXCEPT ![KEYS[mt[t].k]] = Some(Ref(t))])]
  /\ IF mt[t].k < Len(KEYS)
       THEN /\ mt' = [mt EXCEPT ![t].pc = "upd_append", ![t].k = @ + 1]
            /\ evals' = evals
       ELSE /\ mt' = [mt EXCEPT ![t].pc = "et_trade", ![t].k = 0,
                                ![t].lref = NoRefs,
                                ![t].scored = @ \cup {Sym(t)}]
            /\ evals' = [evals EXCEPT ![Sym(t)] = @ + 1]
  /\ heap' = Collect(heap, state', mt')
  /\ UNCHANGED <<dsvars, fn, ai, script, clock, cache, file, lastcall, served>>

(***************************************************************************)
(* math_bot.py: execute_trades, /trigger and bot_loop                      *)
(***************************************************************************)
\* lines 223-231: the market hours and the daily loss are checked
EtStart(t) ==
  /\ mt[t].pc = "et_start"
  /\ IF \/ ~mt[t].ignore /\ Closed(clock)
        \/ state.daily_loss * 100 >= DAILY_MAX_LOSS_PCT * ACCOUNT_EQUITY
       THEN mt' = [mt EXCEPT ![t].pc = "et_ret", ![t].executed = <<>>,
                             ![t].scored = {}]
       ELSE mt' = [mt EXCEPT ![t].pc = "et_next", ![t].idx = 1,
                             ![t].executed = <<>>, ![t].scored = {}]
  /\ UNCHANGED <<dsvars, fn, ai, script, clock, cache, state, heap, file, lastcall, evals, served>>

\* lines 234-235: the next symbol is evaluated; lines 253-254: after the
\* last one the state is saved and the list returned.  The dump is taken
\* here in one step; SaveOpen and SaveNext take it apart
EtNext(t) ==
  /\ mt[t].pc = "et_next"
  /\ IF mt[t].idx <= Len(TICKERS)
       THEN /\ mt' = [mt EXCEPT ![t].pc = "gid_start"]
            /\ file' = file
       ELSE /\ mt' = [mt EXCEPT ![t].pc = "et_ret", ![t].idx = 0]
            /\ file' = Some(Dump(state, heap))
  /\ UNCHANGED <<dsvars, fn, ai, script, clock, cache, state, heap, lastcall, evals, served>>

\* an action that sells on a high score and buys on a low one
ActionOfInverted(score) ==
  IF score > 7500 THEN Some("sell")
  ELSE IF score < 2500 THEN Some("buy") ELSE None

\* lines 239-250: action, None unless the score is above 75 or below 25
ActionOf(score) ==
  IF score > 7500 THEN Some("buy")
  ELSE IF score < 2500 THEN Some("sell") ELSE None

\* lines 238-252: the order, if the score asks for one, and the entry of
\* the symbol.  An exception of calculate_position_size leaves execute_trades
EtTrade(t) ==
  /\ mt[t].pc = "et_trade"
  /\ LET score == mt[t].score
         atr == IF mt[t].raw[1].atr = 0 THEN 1000 ELSE mt[t].raw[1].atr
         action == ActionOf(score)
         size == CalculatePositionSize(mt[t].price, atr, score)
     IN IF action # None /\ size.exc
          THEN mt' = [mt EXCEPT ![t].pc = "et_raised", ![t].raw = None,
                                ![t].score = 0, ![t].price = 0]
          ELSE mt' = [mt EXCEPT ![t].pc = "et_next", ![t].idx = @ + 1,
                                ![t].raw = None, ![t].score = 0, ![t].price = 0,
                                ![t].executed =
                                   Append(@, [symbol |-> Sym(t), score |-> score,
                                              action |-> action])]
  /\ UNCHANGED <<dsvars, fn, ai, script, clock, cache, state, heap, file, lastcall, evals, served>>

\* lines 259-262: a GET /trigger arrives
TriggerRequest(t) ==
  /\ script = "math_bot"
  /\ t = "trigger"
  /\ mt[t].pc = "idle"
  /\ mt[t].runs < MaxTriggers
  /\ mt' = [mt EXCEPT ![t].pc = "et_start", ![t].ignore = TRUE, ![t].runs = @ + 1,
                      ![t].ret = None]
  /\ UNCHANGED <<dsvars, fn, ai, script, clock, cache, state, heap, file, lastcall, evals, served>>

\* line 263: the executed list is sent back
TriggerReturn(t) ==
  /\ t = "trigger"
  /\ mt[t].pc = "et_ret"
  /\ mt' = [mt EXCEPT ![t].pc = "idle", ![t].ret = Some(mt[t].executed),
                      ![t].executed = <<>>]
  /\ UNCHANGED <<dsvars, fn, ai, script, clock, cache, state, heap, file, lastcall, evals, served>>

\* the exception reaches Flask, which answers 500
TriggerError(t) ==
  /\ t = "trigger"
  /\ mt[t].pc = "et_raised"
  /\ mt' = [mt EXCEPT ![t].pc = "idle", ![t].idx = 0, ![t].executed = <<>>]
  /\ UNCHANGED <<dsvars, fn, ai, script, clock, cache, state, heap, file, lastcall, evals, served>>

\* lines 267-281: the loop reads the time; it sleeps a minute when the
\* market is closed or the hour has had its run, else it runs a cycle
BlTop(t) ==
  /\ script = "math_bot"
  /\ t = "loop"
  /\ mt[t].pc = "bl_top"
  /\ mt[t].runs < mt[t].budget
  /\ \E d \in MathClockSteps :
       LET now == clock + d
       IN /\ clock' = now
          /\ IF \/ Closed(now)
                \/ state.last_run # None /\ HourOf(state.last_run[1]) = HourOf(now)
               THEN mt' = [mt EXCEPT ![t].pc = "bl_sleep", ![t].runs = @ + 1,
                                     ![t].wake = now + LOOP_NAP * TicksPerSecond]
               ELSE mt' = [mt EXCEPT ![t].pc = "et_start", ![t].runs = @ + 1,
                                     ![t].ignore = FALSE, ![t].loopnow = now,
                                     ![t].ret = None]
  /\ UNCHANGED <<dsvars, fn, ai, script, cache, state, heap, file, lastcall, evals, served>>

\* lines 272, 278, 285: time.sleep returns
BlWake(t) ==
  /\ mt[t].pc = "bl_sleep"
  /\ clock' = Max(clock, mt[t].wake)
  /\ mt' = [mt EXCEPT ![t].pc = "bl_top", ![t].wake = 0]
  /\ UNCHANGED <<dsvars, fn, ai, script, cache, state, heap, file, lastcall, evals, served>>

\* lines 282-285: the cycle is over; last_run is set and saved, and the loop
\* sleeps to the next half hour
BlAfter(t) ==
  /\ t = "loop"
  /\ mt[t].pc = "et_ret"
  /\ state' = [state EXCEPT !.last_run = Some(mt[t].loopnow)]
  /\ file' = Some(Dump(state', heap))
  /\ mt' = [mt EXCEPT ![t].pc = "bl_sleep", ![t].ret = Some(mt[t].executed),
                      ![t].executed = <<>>,
                      ![t].wake = clock + HALF_HOUR * TicksPerSecond
                                    - (mt[t].loopnow % (HALF_HOUR * TicksPerSecond)),
                      ![t].loopnow = 0]
  /\ UNCHANGED <<dsvars, fn, ai, script, clock, cache, heap, lastcall, evals, served>>

NextMath ==
  \E t \in MathThreads :
    \/ TriggerRequest(t)
    \/ TriggerReturn(t)
    \/ TriggerError(t)
    \/ BlTop(t)
    \/ BlWake(t)
    \/ BlAfter(t)
    \/ EtStart(t)
    \/ EtNext(t)
    \/ GidStart(t)
    \/ GidTry(t)
    \/ GidResponse(t)
    \/ CtsCheck(t)
    \/ UpdAppend(t)
    \/ UpdLen(t)
    \/ UpdPop(t)
    \/ UpdSym(t)
    \/ UpdMk(t)
    \/ UpdStore(t)
    \/ EtTrade(t)

SpecMath == InitMath /\ [][NextMath]_vars

(***************************************************************************)
(* math_bot.py: bot_loop alone, with no GET /trigger, followed for         *)
(* MaxLoopRuns turns of its loop                                           *)
(***************************************************************************)
\* the times at which the thread starts: before the market opens, a quarter
\* past ten on the next day, ten seconds before the market closes
LoopStarts ==
  {StartClock,
   DayTicks + 10 * HourTicks + HourTicks \div 4,
   MARKET_CLOSE - 10 * TicksPerSecond}
\* the last_run that load_state found: none, or that of a cycle started on
\* the hour at ten or at three on the first day
LastRuns == {None, Some(10 * HourTicks), Some(15 * HourTicks)}

InitLoop ==
  /\ script = "math_bot"
  /\ scan = [c \in Callers |-> NoScan]
  /\ twelve_calls = <<>>
  /\ recorded = <<>>
  /\ twelve_lock = 0
  /\ rpc = [c \in Callers |-> "idle"]
  /\ rnow = 0
  /\ rwake = 0
  /\ slept = FALSE
  /\ clock \in LoopStarts
  /\ cache = [s \in Symbols |-> None]
  /\ \E last \in LastRuns :
       /\ last # None => last[1] < clock
       /\ state = [last_run |-> last, daily_loss |-> 0,
                   histories |->
                     [s \in Symbols |->
                        IF s \in PreloadedSymbols
                          THEN Some([k \in KeySet |-> Some(<<"file", s, k>>)])
                          ELSE None]]
  /\ heap = [id \in Ids |->
               IF id[1] = "file" /\ id[2] \in PreloadedSymbols
                 THEN PreloadedHistory(id[3]) ELSE <<>>]
  /\ file = Some(Dump(state, heap))
  /\ mt = [t \in MathThreads |->
             IF t = "loop" THEN [Idle EXCEPT !.pc = "bl_top", !.budget = MaxLoopRuns]
             ELSE Idle]
  /\ lastcall = [s \in Symbols |-> None]
  /\ evals = [s \in Symbols |-> 0]
  /\ served = [errors |-> 0, scoring |-> 0]
  /\ fn = NoFn
  /\ ai = NoAi

NextLoop ==
  \E t \in {"loop"} :
    \/ BlTop(t)
    \/ BlWake(t)
    \/ BlAfter(t)
    \/ EtStart(t)
    \/ EtNext(t)
    \/ GidStart(t)
    \/ GidTry(t)
    \/ GidResponse(t)
    \/ CtsCheck(t)
    \/ UpdAppend(t)
    \/ UpdLen(t)
    \/ UpdSym(t)
    \/ UpdMk(t)
    \/ UpdStore(t)
    \/ EtTrade(t)

SpecLoop == InitLoop /\ [][NextLoop]_vars

\* compute_technical_smart at line 147 in both threads at once: each has
\* its own download of its symbol in hand (no bars, a rising series or one
\* that ends at 0), the later one is in the cache
HistFrames == {NoBars} \cup {[shape |-> sh, rows |-> MIN_BARS] : sh \in {"A", "Z"}}
InitHist ==
  /\ script = "math_bot"
  /\ scan = [c \in Callers |-> NoScan]
  /\ twelve_calls = <<>>
  /\ recorded = <<>>
  /\ twelve_lock = 0
  /\ rpc = [c \in Callers |-> "idle"]
  /\ rnow = 0
  /\ rwake = 0
  /\ slept = FALSE
  /\ clock = MARKET_OPEN
  /\ state = [last_run |-> None, daily_loss |-> 0,
              histories |->
                [s \in Symbols |->
                   IF s \in PreloadedSymbols
                     THEN Some([k \in KeySet |-> Some(<<"file", s, k>>)])
                     ELSE None]]
  /\ heap = [id \in Ids |->
               IF id[1] = "file" /\ id[2] \in PreloadedSymbols
                 THEN PreloadedHistory(id[3]) ELSE <<>>]
  /\ file = Some(Dump(state, heap))
  /\ \E i \in [MathThreads -> 1..Len(TICKERS)], d \in [MathThreads -> HistFrames] :
       /\ mt = [t \in MathThreads |->
                  [Idle EXCEPT !.pc = "cts_check", !.ignore = (t = "trigger"),
                               !.runs = 1, !.loopnow = IF t = "loop" THEN clock ELSE 0,
                               !.idx = i[t], !.now = clock, !.attempt = 1,
                               !.data = d[t],
                               !.executed = [j \in 1..(i[t] - 1) |-> 
                                               [symbol |-> TICKERS[j], score |-> 5000,
                                                action |-> None]],
                               !.scored = {TICKERS[j] : j \in 1..(i[t] - 1)}]]
       /\ cache = [s \in Symbols |->
                     IF \E t \in MathThreads : TICKERS[i[t]] = s /\ HasBars(d[t])
                       THEN Some([data |-> d[CHOOSE t \in MathThreads :
                                               TICKERS[i[t]] = s /\ HasBars(d[t])],
                                  ts |-> clock])
                       ELSE None]
       /\ lastcall = [s \in Symbols |->
                        IF \E t \in MathThreads : TICKERS[i[t]] = s
                          THEN Some(CallRecord(clock, 1, cache[s] # None)) ELSE None]
  /\ evals = [s \in Symbols |-> 0]
  /\ served = [errors |-> 0, scoring |-> 0]
  /\ fn = NoFn
  /\ ai = NoAi

NextHist ==
  \E t \in MathThreads :
    \/ CtsCheck(t)
    \/ UpdAppend(t)
    \/ UpdLen(t)
    \/ UpdPop(t)
    \/ UpdSym(t)
    \/ UpdMk(t)
    \/ UpdStore(t)

SpecHist == InitHist /\ [][NextHist]_vars

(***************************************************************************)
(* math_bot.py: save_state at the end of a scan, step by step, while the   *)
(* other thread evaluates a symbol                                         *)
(***************************************************************************)
\* the symbols with histories in STATE, in the order json.dump meets them
SavedSymbols(st) ==
  LET Present(s) == st.histories[s] # None IN SelectSeq(TICKERS, Present)

\* the histories of symbol s as json.dump reads them
DumpSymbol(st, h, s) == Dump(st, h).histories[s]

\* lines 253, 50-51: the scan is over, open(STATE_FILE, "w") empties the file
\* and json.dump starts to walk STATE["histories"]
SaveOpen(t) ==
  /\ mt[t].pc = "et_next"
  /\ mt[t].idx > Len(TICKERS)
  /\ file' = CorruptFile
  /\ mt' = [mt EXCEPT ![t].pc = "save_next",
                      ![t].saving = Some([size |-> Len(SavedSymbols(state)),
                                          pos |-> 0,
                                          written |-> [s \in Symbols |-> None]])]
  /\ UNCHANGED <<dsvars, fn, ai, script, clock, cache, state, heap, lastcall, evals, served>>

\* line 51: json.dump goes on.  The walk of a dict whose size has changed
\* raises RuntimeError, which leaves save_state and execute_trades with the
\* file cut short; else the histories of the next symbol are written, or,
\* after the last, the file is complete and execute_trades returns (line 254)
SaveNext(t) ==
  /\ mt[t].pc = "save_next"
  /\ LET sv == mt[t].saving[1]
         symbols == SavedSymbols(state)
     IN IF Len(symbols) # sv.size
          THEN /\ mt' = [mt EXCEPT ![t].pc = "et_raised", ![t].saving = None]
               /\ file' = file
          ELSE IF sv.pos < sv.size
          THEN /\ mt' = [mt EXCEPT ![t].saving =
                           Some([sv EXCEPT
                                   !.pos = @ + 1,
                                   !.written[symbols[sv.pos + 1]] =
                                      DumpSymbol(state, heap, symbols[sv.pos + 1])])]
               /\ file' = file
          ELSE /\ mt' = [mt EXCEPT ![t].pc = "et_ret", ![t].idx = 0,
                                   ![t].saving = None]
               /\ file' = Some([last_run |-> state.last_run,
                                daily_loss |-> state.daily_loss,
                                histories |-> sv.written])
  /\ UNCHANGED <<dsvars, fn, ai, script, clock, cache, state, heap, lastcall, evals, served>>

\* one thread has evaluated every ticker and is about to save, the other is
\* where get_intraday_data returned the bars of a ticker to it
InitSave ==
  /\ script = "math_bot"
  /\ scan = [c \in Callers |-> NoScan]
  /\ twelve_calls = <<>>
  /\ recorded = <<>>
  /\ twelve_lock = 0
  /\ rpc = [c \in Callers |-> "idle"]
  /\ rnow = 0
  /\ rwake = 0
  /\ slept = FALSE
  /\ clock = MARKET_OPEN
  /\ state = [last_run |-> None, daily_loss |-> 0,
              histories |->
                [s \in Symbols |->
                   IF s \in PreloadedSymbols
                     THEN Some([k \in KeySet |-> Some(<<"file", s, k>>)])
                     ELSE None]]
  /\ heap = [id \in Ids |->
               IF id[1] = "file" /\ id[2] \in PreloadedSymbols
                 THEN PreloadedHistory(id[3]) ELSE <<>>]
  /\ file = Some(Dump(state, heap))
  /\ \E saver \in MathThreads, i \in 1..Len(TICKERS), d \in HistFrames :
       /\ mt = [t \in MathThreads |->
                  IF t = saver
                    THEN [Idle EXCEPT !.pc = "et_next", !.ignore = (t = "trigger"),
                                      !.runs = 1,
                                      !.loopnow = IF t = "loop" THEN clock ELSE 0,
                                      !.idx = Len(TICKERS) + 1]
                    ELSE [Idle EXCEPT !.pc = "cts_check", !.ignore = (t = "trigger"),
                                      !.runs = 1,
                                      !.loopnow = IF t = "loop" THEN clock ELSE 0,
                                      !.idx = i, !.now = clock, !.attempt = 1,
                                      !.data = d,
                                      !.executed = [j \in 1..(i - 1) |->
                                                      [symbol |-> TICKERS[j],
                                                       score |-> 5000,
                                                       action |-> None]],
                                      !.scored = {TICKERS[j] : j \in 1..(i - 1)}]]
       /\ cache = [s \in Symbols |->
                     IF TICKERS[i] = s /\ HasBars(d)
                       THEN Some([data |-> d, ts |-> clock]) ELSE None]
       /\ lastcall = [s \in Symbols |->
                        IF TICKERS[i] = s
                          THEN Some(CallRecord(clock, 1, cache[s] # None)) ELSE None]
  /\ evals = [s \in Symbols |-> 0]
  /\ served = [errors |-> 0, scoring |-> 0]
  /\ fn = NoFn
  /\ ai = NoAi

\* no history goes over the cap here, so that hist.pop(0) is never reached
NextSave ==
  \E t \in MathThreads :
    \/ SaveOpen(t)
    \/ SaveNext(t)
    \/ CtsCheck(t)
    \/ UpdAppend(t)
    \/ UpdLen(t)
    \/ UpdSym(t)
    \/ UpdMk(t)
    \/ UpdStore(t)

SpecSave == InitSave /\ [][NextSave]_vars

(***************************************************************************)
(* The functions of the scripts, each applied once to an input drawn from  *)
(* a sample                                                                *)
(***************************************************************************)
\* raw indicator values, and the values of the sampled histories
RawSamples == {-10000, -507, 0, 476, 10000}
HistValues == {-507, 0, 476}
\* histories: none, one value, the same value three times, one value and
\* then another once or twice
HistSamples ==
  {<<>>}
  \cup {HRepeat(x, n) : x \in HistValues, n \in {1, 3}}
  \cup {HOneThen(x, y, n) : x \in HistValues, y \in HistValues, n \in {1, 2}}

InitFn ==
  /\ script = "functions"
  /\ NoMath
  /\ ai = NoAi
  /\ scan = [c \in Callers |-> NoScan]
  /\ clock = 0
  /\ twelve_calls = <<>>
  /\ recorded = <<>>
  /\ twelve_lock = 0
  /\ rpc = [c \in Callers |-> "idle"]
  /\ rnow = 0
  /\ rwake = 0
  /\ slept = FALSE

\* no function has been applied yet
CanApply == script = "functions" /\ fn.op = "none"
\* the call op(arg) that returned out
Call(op, arg, out) == [op |-> op, arg |-> arg, out |-> out]

\* lines 137-142: normalize_indicator(value, history)
ApplyNormalize ==
  /\ CanApply
  /\ \E value \in RawSamples, history \in HistSamples :
       fn' = Call("normalize", [value |-> value, history |-> history],
               NormalizeIndicator(value, history))
  /\ UNCHANGED <<dsvars, mathvars, clock, script, ai>>

\* lines 178-196: the score of the raw indicators of a download against
\* histories
ApplyScore ==
  /\ CanApply
  /\ \E f \in ScoringFrames, history \in HistSamples :
       fn' = Call("score", [raw |-> RawTable[f], history |-> history],
               Score(RawTable[f], [k \in KeySet |-> history]))
  /\ UNCHANGED <<dsvars, mathvars, clock, script, ai>>

\* trend strengths, in thousandths
TrendSamples == {0, 1, 250, 500, 999, 1000}

\* lines 187-192: the weights for two trend strengths
ApplyWeights ==
  /\ CanApply
  /\ \E a \in TrendSamples, b \in TrendSamples :
       fn' = Call("weights", <<a, b>>, <<Weights(a), Weights(b)>>)
  /\ UNCHANGED <<dsvars, mathvars, clock, script, ai>>

\* scores, in hundredths: those around the thresholds of the code and of
\* the five-bucket banding
ScoreSamples ==
  {0, 1499, 1500, 2499, 2500, 2999, 3000, 5000, 6999, 7000, 7200, 7500, 7501,
   8499, 8500, 10000}

\* lines 239-250: the actions chosen for two scores
ApplySignal ==
  /\ CanApply
  /\ \E a \in ScoreSamples, b \in ScoreSamples :
       fn' = Call("signal", <<a, b>>, <<ActionOf(a), ActionOf(b)>>)
  /\ UNCHANGED <<dsvars, mathvars, clock, script, ai>>

\* closes, in cents, and the sequences of them of a given length
CloseSamples == {9990, 10000, 10020}
ClosesOfLen(n) == [1..n -> CloseSamples]
\* MIN_BARS closes that rise, that fall, that stay, that rise with setbacks
LongCloses ==
  {[k \in 1..MIN_BARS |-> 10000 + 10 * k], [k \in 1..MIN_BARS |-> 10000 - 10 * k],
   [k \in 1..MIN_BARS |-> 10000], [k \in 1..MIN_BARS |-> SeriesClose(k)]}
\* closes and a period they outnumber
RsiSamples ==
  {[closes |-> c, period |-> 2] : c \in ClosesOfLen(3) \cup ClosesOfLen(4)}
  \cup {[closes |-> c, period |-> 14] : c \in LongCloses}

\* math_bot.py lines 114-128 and deepseek_bot.py lines 189-200: the RSI of
\* more than `period` closes
ApplyRsi ==
  /\ CanApply
  /\ \E a \in RsiSamples :
       fn' = Call("rsi", a, [math |-> Rsi(a.closes, a.period),
                          ds |-> DsRsi(a.closes, a.period)])
  /\ UNCHANGED <<dsvars, mathvars, clock, script, ai>>

\* the period of the RSI and of the ATR (math_bot.py lines 114 and 159,
\* deepseek_bot.py line 190), and the window of ma20 (line 187)
INDICATOR_PERIOD == 14
MA_WINDOW == 20

\* sequences of bars, fewer than INDICATOR_PERIOD
ShortSamples ==
  {Bars(shape, n) : shape \in {"A", "B"}, n \in 1..(INDICATOR_PERIOD - 1)}

\* the indicators of both scripts for fewer bars than their period.  rsi,
\* macd_value and the ATR expression of math_bot.py give a number in every
\* case: it is held as a value that is present
ApplyShort ==
  /\ CanApply
  /\ \E data \in ShortSamples :
       LET closes == [i \in 1..Len(data) |-> data[i].close]
           ds_data == [i \in 1..Len(data) |->
                         [time |-> data[i].time, close |-> data[i].close,
                          volume |-> data[i].volume]]
       IN fn' = Call("short", data,
                  [ema |-> Ema(closes, INDICATOR_PERIOD),
                   rsi |-> Some(Rsi(closes, INDICATOR_PERIOD)),
                   atr |-> Some(Atr(data)),
                   ds_ma20 |-> ComputeTechnical(ds_data)[1].ma20,
                   ds_rsi |-> ComputeTechnical(ds_data)[1].rsi])
  /\ UNCHANGED <<dsvars, mathvars, clock, script, ai>>

\* values and a period: fewer values than the period, as many, more
EmaSamples ==
  {[values |-> v, period |-> 2] : v \in ClosesOfLen(1) \cup ClosesOfLen(2) \cup ClosesOfLen(3)}
  \cup {[values |-> v, period |-> 3] : v \in ClosesOfLen(4)}

\* lines 98-105: ema(values, period)
ApplyEma ==
  /\ CanApply
  /\ \E a \in EmaSamples : fn' = Call("ema", a, Ema(a.values, a.period))
  /\ UNCHANGED <<dsvars, mathvars, clock, script, ai>>

\* what STATE_FILE may hold when the service starts
FileSamples == {None, CorruptFile, Some(EmptyState), LoadedFile}

\* line 53: STATE = load_state(), when the module is loaded
ApplyLoadState ==
  /\ CanApply
  /\ \E contents \in FileSamples :
       fn' = Call("load_state", contents, LoadState(contents))
  /\ UNCHANGED <<dsvars, mathvars, clock, script, ai>>

NextFn ==
  \/ ApplyNormalize
  \/ ApplyScore
  \/ ApplyWeights
  \/ ApplySignal
  \/ ApplyRsi
  \/ ApplyShort
  \/ ApplyEma
  \/ ApplyLoadState

SpecFn == InitFn /\ [][NextFn]_vars

(***************************************************************************)
(* ai_bot.py: run_bot, the scheduled loop.  MARKET_OPEN and MARKET_CLOSE   *)
(* (lines 13-14) are those of math_bot.py.  execute_trading_logic changes  *)
(* none of the loop's locals: it is held here as the time it takes and     *)
(* whether it raises.                                                      *)
(***************************************************************************)
TRIGGER_OFFSET == 10
TRIGGER_SLACK == 30
POLL_NAP == 20

MinuteTicks == 60 * TicksPerSecond
\* datetime.combine(now.date(), time(0, 0))
DayStart(now) == now - TimeOfDay(now)
\* lines 248-250: mid_minutes, in minutes after midnight
MidMinutes ==
  LET open_minutes == MARKET_OPEN \div MinuteTicks
      close_minutes == MARKET_CLOSE \div MinuteTicks
  IN open_minutes + (close_minutes - open_minutes) \div 2
\* lines 254-264: the three triggers of the day of `now`
Triggers(now) ==
  <<DayStart(now) + MARKET_OPEN + TRIGGER_OFFSET * MinuteTicks,
    DayStart(now) + MidMinutes * MinuteTicks,
    DayStart(now) + MARKET_CLOSE - TRIGGER_OFFSET * MinuteTicks>>

\* line 267, a test that does not look at already_ran
DueAgain(now, t, ran) == Abs(now - t) < TRIGGER_SLACK * TicksPerSecond

\* line 267: abs((now - t).total_seconds()) < 30 and t not in already_ran
Due(now, t, ran) ==
  Abs(now - t) < TRIGGER_SLACK * TicksPerSecond /\ t \notin ran

\* the first trigger from index i on that line 267 lets through, 0 if none
NextDue(now, i, ran) ==
  LET due == {j \in i..Len(Triggers(now)) : Due(now, Triggers(now)[j], ran)}
  IN IF due = {} THEN 0 ELSE CHOOSE j \in due : \A k \in due : j <= k

\* lines 276-277: already_ran after the reset, with the `now` of line 245
AfterReset(now, ran) == IF TimeOfDay(now) >= MARKET_CLOSE THEN {} ELSE ran

\* what the clock gains while the thread is not running, and during a call
\* of execute_trading_logic
AiClockSteps == {0, 10 * TicksPerSecond}
RunTimes == {0, POLL_NAP * TicksPerSecond}
RunOutcomes == {"returns", "raises"}

\* the thread starts a minute before the first trigger
StartAi == MARKET_OPEN + (TRIGGER_OFFSET - 1) * MinuteTicks
\* the loop is followed to the first trigger of the day after the last day
AiHorizon == StartAi + MaxPollDays * DayTicks + 2 * MinuteTicks

\* the other scripts are not running
NoOthers ==
  /\ NoMath
  /\ scan = [c \in Callers |-> NoScan]
  /\ twelve_calls = <<>>
  /\ recorded = <<>>
  /\ twelve_lock = 0
  /\ rpc = [c \in Callers |-> "idle"]
  /\ rnow = 0
  /\ rwake = 0
  /\ slept = FALSE

\* lines 240-242: run_bot starts with already_ran = set().  fired lists
\* the triggers execute_trading_logic was called for
InitRun ==
  /\ script = "ai_bot"
  /\ NoOthers
  /\ clock = StartAi
  /\ ai = [pc |-> "rb_top", now |-> 0, cur |-> 0, wake |-> 0,
           already_ran |-> {}, fired |-> <<>>, raised |-> FALSE]

\* lines 275-279: the reset of already_ran, and time.sleep(20) begins
RbSleeps(a, now, ran, clk) ==
  [a EXCEPT !.pc = "rb_sleep", !.cur = 0, !.already_ran = AfterReset(now, ran),
            !.wake = clk + POLL_NAP * TicksPerSecond]

\* lines 244-267: the loop reads the time; with no trigger due it goes to
\* the reset and sleeps
RbPoll ==
  /\ ai.pc = "rb_top"
  /\ LET now == clock
         i == NextDue(now, 1, ai.already_ran)
     IN ai' = IF i = 0
                THEN RbSleeps([ai EXCEPT !.now = now], now, ai.already_ran, clock)
                ELSE [ai EXCEPT !.pc = "rb_run", !.now = now, !.cur = i]
  /\ UNCHANGED <<dsvars, mathvars, clock, script, fn>>

\* lines 268-273: execute_trading_logic runs and returns or raises, the
\* trigger is added to already_ran, and the for loop goes on
RbRun ==
  /\ ai.pc = "rb_run"
  /\ \E out \in RunOutcomes, d \in RunTimes :
       LET t == Triggers(ai.now)[ai.cur]
           ran == ai.already_ran \cup {t}
           j == NextDue(ai.now, ai.cur + 1, ran)
           a == [ai EXCEPT !.fired = Append(@, t), !.raised = (out = "raises"),
                           !.already_ran = ran]
       IN /\ clock' = clock + d
          /\ ai' = IF j = 0 THEN RbSleeps(a, ai.now, ran, clock')
                    ELSE [a EXCEPT !.cur = j]
  /\ UNCHANGED <<dsvars, mathvars, script, fn>>

\* line 279: time.sleep(20) returns
RbWake ==
  /\ ai.pc = "rb_sleep"
  /\ clock < AiHorizon
  /\ \E d \in AiClockSteps : clock' = Max(clock, ai.wake) + d
  /\ ai' = [ai EXCEPT !.pc = "rb_top", !.wake = 0]
  /\ UNCHANGED <<dsvars, mathvars, script, fn>>

NextRun == RbPoll \/ RbRun \/ RbWake

SpecRun == InitRun /\ [][NextRun]_vars

(***************************************************************************)
(* ai_bot.py and deepseek_bot.py: execute_trading_logic.  A line of the    *)
(* model's answer is held as what line.split(":", 1) makes of it; a call   *)
(* of place_order is held as its arguments.                                *)
(***************************************************************************)
\* str.strip().upper() of the texts that occur
UpperStrip ==
  [x \in {"AAPL", "aapl", " AAPL ", "MSFT", " BUY", " sell", " STRONG SELL",
          " Strong Buy (high confidence)", " Strong Buy ", " maybe", " HOLD"} |->
     CASE x \in {"AAPL", "aapl", " AAPL "} -> "AAPL"
       [] x = "MSFT" -> "MSFT"
       [] x = " BUY" -> "BUY"
       [] x = " sell" -> "SELL"
       [] x = " STRONG SELL" -> "STRONG SELL"
       [] x = " Strong Buy (high confidence)" -> "STRONG BUY (HIGH CONFIDENCE)"
       [] x = " Strong Buy " -> "STRONG BUY"
       [] x = " maybe" -> "MAYBE"
       [] x = " HOLD" -> "HOLD"]
\* deepseek_bot.py line 471: raw_sig.split("(")[0]
BeforeParen(x) ==
  IF x = " Strong Buy (high confidence)" THEN " Strong Buy " ELSE x
\* ai_bot.py line 234: the labels a signal may bear
LABELS == {"STRONG BUY", "BUY", "HOLD", "SELL", "STRONG SELL"}

\* a line without a colon, and lines with one
LineSamples ==
  {[colon |-> FALSE, sym |-> "", sig |-> ""]}
  \cup {[colon |-> TRUE, sym |-> y, sig |-> g] :
          y \in {"AAPL", "aapl"}, g \in {" BUY", " sell"}}
  \cup {[colon |-> TRUE, sym |-> " AAPL ", sig |-> " STRONG SELL"]}
  \cup {[colon |-> TRUE, sym |-> "MSFT", sig |-> g] :
          g \in {" Strong Buy (high confidence)", " maybe", " HOLD"}}
\* signals.splitlines() of an answer that is not blank
Answers == UNION {[1..n -> LineSamples] : n \in 1..MaxLines}

\* ai_bot.py line 214: math_bot.get_all_summaries(TICKERS) raises, as it
\* does with the math_bot.py of this repository, which has no such
\* function, or gives a list; deepseek_bot.py line 443: get_stock_summary
\* gives a list
SummaryOutcomes(sc) ==
  IF sc = "ai_bot" THEN {"raises", "empty", "summaries"} ELSE {"empty", "summaries"}
\* ai_bot.py lines 218-219 and deepseek_bot.py lines 449-455: ask_deepseek
\* fails, answers with nothing, or answers with lines
AskOutcomes == {"fails", "blank", "lines"}

\* ai_bot.py lines 233-235 and deepseek_bot.py line 471: the signal handed
\* to place_order
SignalOf(sc, raw_sig) ==
  IF sc = "ai_bot"
    THEN IF UpperStrip[raw_sig] \in LABELS THEN UpperStrip[raw_sig] ELSE "HOLD"
    ELSE UpperStrip[BeforeParen(raw_sig)]

\* execute_trading_logic is called, by either script
InitExec ==
  /\ script \in {"ai_bot", "deepseek_bot"}
  /\ NoOthers
  /\ clock = StartAi
  /\ ai = [pc |-> "ex_start", lines |-> <<>>, idx |-> 0, seen |-> {},
           placed |-> <<>>]

\* ai_bot.py lines 214-224, deepseek_bot.py lines 443-458: the summaries,
\* the answer, and seen = set()
ExecAsk ==
  /\ ai.pc = "ex_start"
  /\ \E sm \in SummaryOutcomes(script), ask \in AskOutcomes :
       IF sm = "raises" THEN ai' = [ai EXCEPT !.pc = "ex_raised"]
       ELSE IF sm = "empty" \/ ask # "lines" THEN ai' = [ai EXCEPT !.pc = "ex_done"]
       ELSE \E answer \in Answers :
              ai' = [ai EXCEPT !.pc = "ex_line", !.lines = answer, !.idx = 1]
  /\ UNCHANGED <<dsvars, mathvars, clock, script, fn>>

\* a loop body that does not look at seen
ExecLineUnseen ==
  /\ ai.pc = "ex_line"
  /\ ai.idx <= Len(ai.lines)
  /\ LET line == ai.lines[ai.idx]
     IN ai' = IF ~line.colon THEN [ai EXCEPT !.idx = @ + 1]
              ELSE [ai EXCEPT !.idx = @ + 1,
                              !.placed = Append(@, [symbol |-> UpperStrip[line.sym],
                                                    signal |-> SignalOf(script, line.sig),
                                                    line |-> ai.idx])]
  /\ UNCHANGED <<dsvars, mathvars, clock, script, fn>>

\* ai_bot.py lines 225-237, deepseek_bot.py lines 459-474: one line of the
\* answer
ExecLine ==
  /\ ai.pc = "ex_line"
  /\ ai.idx <= Len(ai.lines)
  /\ LET line == ai.lines[ai.idx]
         sym == UpperStrip[line.sym]
     IN ai' = IF ~line.colon \/ sym \in ai.seen
                THEN [ai EXCEPT !.idx = @ + 1]
                ELSE [ai EXCEPT !.idx = @ + 1, !.seen = @ \cup {sym},
                                !.placed = Append(@, [symbol |-> sym,
                                                      signal |-> SignalOf(script, line.sig),
                                                      line |-> ai.idx])]
  /\ UNCHANGED <<dsvars, mathvars, clock, script, fn>>

\* the for loop is over and execute_trading_logic returns
ExecEnd ==
  /\ ai.pc = "ex_line"
  /\ ai.idx > Len(ai.lines)
  /\ ai' = [ai EXCEPT !.pc = "ex_done"]
  /\ UNCHANGED <<dsvars, mathvars, clock, script, fn>>

NextExec == ExecAsk \/ ExecLine \/ ExecEnd

SpecExec == InitExec /\ [][NextExec]_vars

(***************************************************************************)
(* ai_bot.py: place_order, called by the thread of run_bot and by the      *)
(* thread that GET /trigger starts.  Money is in dollars.  The broker fills*)
(* a market order when it accepts it.                                      *)
(***************************************************************************)
AiThreads == {"sched", "manual"}
\* account.equity, and the prices of the latest trade
EquitySample == 100000
PriceSamples == {100, 30000}
\* the position the account holds in a symbol when the service starts
PositionSamples == {0, 250}

\* lines 157-164: the risk-based quantity, capped by a quarter of the equity
OrderQty(equity, last_price) ==
  LET risk_dollars == (equity * 3) \div 100
      risk_qty == (risk_dollars * 1000) \div (last_price * 15)
      max_spend == (equity * 25) \div 100
  IN Min(risk_qty, max_spend \div last_price)

\* a thread that is not inside place_order
NoCall ==
  [pc |-> "idle", symbol |-> "", signal |-> "", held_qty |-> 0, qty |-> 0]

\* api is the REST client, or None when its construction raised (lines
\* 64-69); orders lists the orders the broker accepted, each with the
\* position held in its symbol when it was submitted
InitOrder ==
  /\ script = "ai_bot"
  /\ NoOthers
  /\ clock = StartAi
  /\ \E api \in BOOLEAN, positions \in [Symbols -> PositionSamples] :
       ai = [pc |-> "orders", api |-> api, trade_lock |-> None,
             positions |-> positions, orders |-> <<>>, calls |-> 0,
             th |-> [t \in AiThreads |-> NoCall]]

\* place_order returns: the `with` block releases the lock
Leaves(a, t) == [a EXCEPT !.trade_lock = None, !.th[t] = NoCall]

\* lines 127-130: place_order(symbol, signal) is called with one of the
\* labels; without a client it returns
PoCall(t) ==
  /\ ai.pc = "orders"
  /\ ai.th[t].pc = "idle"
  /\ ai.calls < MaxPlace
  /\ \E y \in Symbols, g \in LABELS :
       ai' = IF ai.api
               THEN [ai EXCEPT !.calls = @ + 1,
                               !.th[t] = [NoCall EXCEPT !.pc = "po_lock", !.symbol = y,
                                                        !.signal = g]]
               ELSE [ai EXCEPT !.calls = @ + 1]
  /\ UNCHANGED <<dsvars, mathvars, clock, script, fn>>

\* line 132: with trade_lock
PoLock(t) ==
  /\ ai.pc = "orders"
  /\ ai.th[t].pc = "po_lock"
  /\ ai.trade_lock = None
  /\ ai' = [ai EXCEPT !.trade_lock = Some(t), !.th[t].pc = "po_account"]
  /\ UNCHANGED <<dsvars, mathvars, clock, script, fn>>

\* lines 134-138: get_account raises, or the account is or is not tradable
PoAccount(t) ==
  /\ ai.pc = "orders"
  /\ ai.th[t].pc = "po_account"
  /\ \E account \in {"raises", "blocked", "active"} :
       ai' = IF account = "active" THEN [ai EXCEPT !.th[t].pc = "po_position"]
             ELSE Leaves(ai, t)
  /\ UNCHANGED <<dsvars, mathvars, clock, script, fn>>

\* lines 141-145: get_position gives the position held; it raises when
\* there is none, and when the request fails; held_qty is 0 then
PoPosition(t) ==
  /\ ai.pc = "orders"
  /\ ai.th[t].pc = "po_position"
  /\ \E answer \in {"position", "raises"} :
       /\ answer = "position" => ai.positions[ai.th[t].symbol] > 0
       /\ ai' = [ai EXCEPT !.th[t].pc = "po_price",
                           !.th[t].held_qty =
                              IF answer = "position"
                                THEN ai.positions[ai.th[t].symbol] ELSE 0]
  /\ UNCHANGED <<dsvars, mathvars, clock, script, fn>>

\* lines 147-168: get_latest_trade raises or gives a price; the quantity
\* is computed, and without one place_order returns
PoPrice(t) ==
  /\ ai.pc = "orders"
  /\ ai.th[t].pc = "po_price"
  /\ \/ ai' = Leaves(ai, t)
     \/ \E last_price \in PriceSamples :
          LET qty == OrderQty(EquitySample, last_price)
          IN ai' = IF qty <= 0 THEN Leaves(ai, t)
                   ELSE [ai EXCEPT !.th[t].pc = "po_submit", !.th[t].qty = qty]
  /\ UNCHANGED <<dsvars, mathvars, clock, script, fn>>

\* the order the broker accepted, and the position after it
Accepted(a, t, side, qty) ==
  LET y == a.th[t].symbol
  IN [Leaves(a, t) EXCEPT
        !.orders = Append(@, [side |-> side, symbol |-> y, qty |-> qty,
                              held |-> a.positions[y], by |-> t]),
        !.positions[y] = IF side = "buy" THEN @ + qty ELSE Max(@ - qty, 0)]

\* lines 171-208: the buy of qty shares unless held_qty > 0, the sell of
\* held_qty shares, or nothing; submit_order raises or the broker accepts
PoSubmit(t) ==
  /\ ai.pc = "orders"
  /\ ai.th[t].pc = "po_submit"
  /\ LET call == ai.th[t]
     IN IF call.signal \in {"BUY", "STRONG BUY"}
          THEN IF call.held_qty > 0 THEN ai' = Leaves(ai, t)
               ELSE \/ ai' = Leaves(ai, t)
                    \/ ai' = Accepted(ai, t, "buy", call.qty)
          ELSE IF call.signal \in {"SELL", "STRONG SELL"} /\ call.held_qty > 0
            THEN \/ ai' = Leaves(ai, t)
                 \/ ai' = Accepted(ai, t, "sell", call.held_qty)
          ELSE ai' = Leaves(ai, t)
  /\ UNCHANGED <<dsvars, mathvars, clock, script, fn>>

NextOrder ==
  \E t \in AiThreads :
    \/ PoCall(t)
    \/ PoLock(t)
    \/ PoAccount(t)
    \/ PoPosition(t)
    \/ PoPrice(t)
    \/ PoSubmit(t)

SpecOrder == InitOrder /\ [][NextOrder]_vars

\* every run of either script
Init == InitDS \/ InitMath
Next == NextDS \/ NextMath
Spec == Init /\ [][Next]_vars

(***************************************************************************)
(* C1: in any trailing window of TWELVE_WINDOW seconds (here: the window   *)
(* that ends at any recorded call) at most TWELVE_RATE_LIMIT call          *)
(* timestamps are recorded, whatever the number and interleaving of        *)
(* callers.                                                                *)
(***************************************************************************)
InWindow(t, end) == end - t < WindowTicks /\ t <= end

C1_WindowNeverExceedsLimit ==
  \A i \in 1..Len(recorded) :
    Cardinality({j \in 1..Len(recorded) : InWindow(recorded[j], recorded[i])})
      <= TWELVE_RATE_LIMIT

\* a caller that found the window full has slept and recorded its call
C1_Witness ==
  /\ Len(recorded) > TWELVE_RATE_LIMIT
  /\ slept /\ twelve_lock = 0

(***************************************************************************)
(* Claims about math_bot.py's get_intraday_data                            *)
(***************************************************************************)
\* get_intraday_data has returned to thread t and compute_technical_smart
\* has not yet looked at the result
Returned(t) == script = "math_bot" /\ mt[t].pc = "cts_check"
\* the call of thread t is past its cache lookup
InCall(t) ==
  script = "math_bot" /\ mt[t].pc \in {"gid_try", "gid_inflight", "cts_check"}
\* the call that returned to t went to the network and came back without bars
FetchFailed(t) == Returned(t) /\ ~mt[t].hit /\ ~HasBars(mt[t].data)

(***************************************************************************)
(* C2, as the specification states it: two get_intraday_data calls for a   *)
(* symbol whose clock readings are less than INTRADAY_TTL apart, with no   *)
(* other call for the symbol returning (hence no cache write) in between,  *)
(* trigger exactly one network fetch: when the first went to the network,  *)
(* the second does not.                                                    *)
(***************************************************************************)
C2_TwoCallsOneFetch ==
  \A t \in MathThreads :
    (Returned(t) /\ mt[t].snap # None /\ mt[t].snap[1].fetches >= 1)
      => mt[t].attempt = 0

(***************************************************************************)
(* C2, amended: a call that finds a fresh entry starts no download and     *)
(* returns the bars of that entry; and a call whose clock reading is less  *)
(* than INTRADAY_TTL after that of the last returned call for the symbol,  *)
(* when that call stored the bars it downloaded, finds the entry fresh and *)
(* starts no download, so that the two calls started only the downloads of *)
(* the first.                                                              *)
(***************************************************************************)
C2_FreshEntryServed ==
  /\ [](\A t \in MathThreads :
          /\ (Returned(t) /\ mt[t].hit)
               => /\ mt[t].attempt = 0
                  /\ mt[t].stale # None
                  /\ mt[t].now - mt[t].stale[1] < TtlTicks
                  /\ HasBars(mt[t].data)
          /\ (/\ InCall(t)
              /\ mt[t].snap # None
              /\ mt[t].snap[1].wrote
              /\ mt[t].now - mt[t].snap[1].start < TtlTicks)
               => (mt[t].hit /\ mt[t].attempt = 0))
  /\ [][\A t \in MathThreads :
          (script = "math_bot" /\ mt[t].pc = "gid_start" /\ mt'[t].pc = "cts_check")
            => /\ mt'[t].hit
               /\ cache[Sym(t)] # None
               /\ mt'[t].data = cache[Sym(t)][1].data
               /\ cache' = cache]_vars

\* a call was served from the entry that the call before it had stored
C2_Witness ==
  \E t \in MathThreads :
    /\ Returned(t) /\ mt[t].hit
    /\ mt[t].snap # None /\ mt[t].snap[1].wrote

(***************************************************************************)
(* C3: when the downloads of a call fail (every attempt raises, or the     *)
(* answer has no rows), get_intraday_data returns the bars of the cache    *)
(* entry it found for the symbol, stale as it may be, and the empty list   *)
(* only when it found no entry.                                            *)
(***************************************************************************)
C3_StaleEntryReturnedOnFailure ==
  \A t \in MathThreads :
    FetchFailed(t)
      => IF mt[t].stale = None THEN mt[t].data = NoBars
         ELSE /\ HasBars(mt[t].data)
              /\ cache[Sym(t)][1].ts = mt[t].stale[1]
                   => mt[t].data = cache[Sym(t)][1].data

(***************************************************************************)
(* C4: neither fetcher raises to its caller.  fetch_twelvedata_bars        *)
(* returns a list under every answer of the provider, the empty one when   *)
(* the provider reports its rate limit; an exception of yf.download (its   *)
(* rate-limit error among them) leaves INTRADAY_CACHE as it is, and the    *)
(* call that gives up after its last attempt returns the empty list.       *)
(***************************************************************************)
C4_FetcherNeverRaises ==
  /\ [](\A c \in Callers :
          scan[c].fetched # None
            => /\ ~scan[c].fetched[1].res.exc
               /\ scan[c].fetched[1].kind = "rate_limited"
                    => scan[c].fetched[1].res.val = <<>>)
  /\ [][\A t \in MathThreads :
          /\ (mt[t].pc = "gid_inflight" /\ mt'[t].pc = "gid_try") => cache' = cache
          /\ (mt[t].pc = "gid_try" /\ mt'[t].pc = "cts_check")
               => (mt'[t].data = NoBars /\ cache' = cache)
          /\ mt[t].pc = "gid_inflight" => mt'[t].pc \in {"gid_inflight", "gid_try", "cts_check"}]_vars

\* the provider has reported its rate limit to a scan
C4_Witness ==
  \E c \in Callers :
    /\ scan[c].fetched # None
    /\ scan[c].fetched[1].kind = "rate_limited"

(***************************************************************************)
(* C5: at most one download for a symbol is in flight at any time.         *)
(***************************************************************************)
C5_OneFetchInFlightPerSymbol ==
  \A t, u \in MathThreads :
    (/\ script = "math_bot" /\ t # u
     /\ mt[t].pc = "gid_inflight" /\ mt[u].pc = "gid_inflight")
      => Sym(t) # Sym(u)

(***************************************************************************)
(* C6: an exception while one symbol is evaluated never leaves             *)
(* execute_trades: the scan goes on to the remaining symbols and returns.  *)
(***************************************************************************)
C6_ScanNeverAborted ==
  \A t \in MathThreads : mt[t].pc # "et_raised"

(***************************************************************************)
(* C7: the list a scan returns has, in the order of TICKERS, exactly one   *)
(* entry for each ticker whose indicators were computed and none for the   *)
(* others, for get_stock_summary and for execute_trades alike.             *)
(***************************************************************************)
SymbolsOf(entries) == [i \in 1..Len(entries) |-> entries[i].symbol]
Succeeded(good) == LET In(t) == t \in good IN SelectSeq(TICKERS, In)

C7_SummariesInInputOrder ==
  /\ \A c \in Callers :
       scan[c].returned # None
         => SymbolsOf(scan[c].returned[1]) = Succeeded(scan[c].good)
  /\ script = "math_bot"
       => \A t \in MathThreads :
            mt[t].ret # None => SymbolsOf(mt[t].ret[1]) = Succeeded(mt[t].scored)

\* a scan has returned the summaries of both tickers
C7_Witness ==
  \E c \in Callers :
    /\ scan[c].returned # None
    /\ Len(scan[c].returned[1]) = Len(TICKERS)

(***************************************************************************)
(* C8: no summary in a returned list has an indicator that is None.        *)
(***************************************************************************)
C8_NoNullIndicator ==
  \A c \in Callers :
    scan[c].returned # None
      => \A i \in 1..Len(scan[c].returned[1]) :
           /\ scan[c].returned[1][i].ma5 # None
           /\ scan[c].returned[1][i].ma20 # None
           /\ scan[c].returned[1][i].rsi # None

(***************************************************************************)
(* Claims about the histories of math_bot.py                               *)
(***************************************************************************)
\* the list STATE["histories"][s][k], empty when there is none
HistoryOf(s, k) ==
  IF state.histories[s] = None \/ state.histories[s][1][k] = None THEN <<>>
  ELSE heap[state.histories[s][1][k][1]]

\* no thread is inside the update loop (lines 199-203) for symbol s
Settled(s) ==
  \A t \in MathThreads :
    mt[t].pc \in {"upd_append", "upd_len", "upd_pop", "upd_sym", "upd_mk", "upd_store"}
      => Sym(t) # s

\* the length of the histories of s in the loaded state file
LoadedLen(s) == IF s \in PreloadedSymbols THEN PreloadedLen ELSE 0

(***************************************************************************)
(* C9: once the scored evaluations of a symbol are over, each of its       *)
(* histories has received exactly one value per evaluation: while the cap  *)
(* is not exceeded, its length is the loaded length plus the number of     *)
(* evaluations.                                                            *)
(***************************************************************************)
C9_OneAppendPerEvaluation ==
  script = "math_bot"
    => \A s \in Symbols : \A k \in KeySet :
         (Settled(s) /\ LoadedLen(s) + evals[s] <= HISTORY_CAP)
           => HLen(HistoryOf(s, k)) = LoadedLen(s) + evals[s]

(***************************************************************************)
(* C10: after every evaluation each history holds at most HISTORY_CAP      *)
(* values, and it is always the most recent values in arrival order: the   *)
(* history STATE holds for a symbol and an indicator changes only by       *)
(* receiving the value of an evaluation at its end or, when that made it   *)
(* exceed the cap, by losing its oldest value.                             *)
(***************************************************************************)
C10_HistoryBoundedFifo ==
  /\ [](script = "math_bot"
          => \A s \in Symbols : \A k \in KeySet :
               Settled(s) => HLen(HistoryOf(s, k)) <= HISTORY_CAP)
  /\ [][script = "math_bot"
          => \A s \in Symbols : \A k \in KeySet :
               \/ HistoryOf(s, k)' = HistoryOf(s, k)
               \/ \E t \in MathThreads :
                    /\ mt[t].raw # None
                    /\ HistoryOf(s, k)' = HAppend(HistoryOf(s, k), mt[t].raw[1][k])
               \/ /\ HLen(HistoryOf(s, k)) > HISTORY_CAP
                  /\ HistoryOf(s, k)' = HPopFirst(HistoryOf(s, k))]_vars

(***************************************************************************)
(* Claims about the normaliser and the score                               *)
(***************************************************************************)
\* all the values of a history are equal (it is a single run), or it has none
NoSpread(history) == Len(history) <= 1

(***************************************************************************)
(* C11: normalize_indicator returns exactly 50 for every raw value when    *)
(* the history is empty or all its values are equal (a single value        *)
(* included), that is when its standard deviation is 0.                    *)
(***************************************************************************)
C11_NeutralWithoutSpread ==
  (fn.op = "normalize" /\ NoSpread(fn.arg.history)) => fn.out = 5000

\* a value was normalised against three equal values other than itself
C11_Witness ==
  /\ fn.op = "normalize"
  /\ Len(fn.arg.history) = 1
  /\ fn.arg.history[1].n = 3
  /\ fn.arg.history[1].v # fn.arg.value
  /\ fn.out = 5000

(***************************************************************************)
(* C12: whatever the raw value and the history, normalize_indicator gives  *)
(* a value in [0, 100], and so does the score built from the normalised    *)
(* indicators.                                                             *)
(***************************************************************************)
C12_OutputsInRange ==
  fn.op \in {"normalize", "score"} => (fn.out >= 0 /\ fn.out <= 10000)

\* a value more than three deviations above the mean was normalised to 100
C12_Witness ==
  /\ fn.op = "normalize"
  /\ Len(fn.arg.history) > 1
  /\ fn.arg.value > Mean(fn.arg.history)
  /\ fn.out = 10000

(***************************************************************************)
(* C13: for every trend strength in [0, 1] the four weights are            *)
(* non-negative and sum to 1, and of two trend strengths the greater has   *)
(* no smaller trend weight and no greater RSI weight.                      *)
(***************************************************************************)
C13_WeightsNormalisedMonotone ==
  fn.op = "weights"
    => /\ \A i \in 1..2 :
            /\ \A k \in KeySet : fn.out[i][k] >= 0
            /\ fn.out[i].macd + fn.out[i].rsi + fn.out[i].vol + fn.out[i].atr = 10000
       /\ fn.arg[1] <= fn.arg[2]
            => /\ fn.out[1].macd <= fn.out[2].macd
               /\ fn.out[1].rsi >= fn.out[2].rsi

\* the weights of a weaker and of a stronger trend differ
C13_Witness ==
  /\ fn.op = "weights"
  /\ fn.arg[1] < fn.arg[2]
  /\ fn.out[1].macd < fn.out[2].macd
  /\ fn.out[1].rsi > fn.out[2].rsi

(***************************************************************************)
(* C14: the action chosen for a score is that of the five-bucket banding:  *)
(* a score of 85 or more is a strong_buy, of 70 or more a buy, of 30 or    *)
(* more a hold, of 15 or more a sell, and any lower one a strong_sell; a   *)
(* strong_buy or buy is taken as the order "buy", a sell or strong_sell as *)
(* the order "sell", a hold as no order.                                   *)
(***************************************************************************)
C14_FiveBucketBanding ==
  fn.op = "signal"
    => LET score == fn.arg[1]
           signal == IF score >= 8500 THEN "strong_buy"
                     ELSE IF score >= 7000 THEN "buy"
                     ELSE IF score >= 3000 THEN "hold"
                     ELSE IF score >= 1500 THEN "sell"
                     ELSE "strong_sell"
       IN fn.out[1] = IF signal \in {"strong_buy", "buy"} THEN Some("buy")
                      ELSE IF signal \in {"sell", "strong_sell"} THEN Some("sell")
                      ELSE None

(***************************************************************************)
(* C15: of two scores a <= b, the action for b is never more bearish than  *)
(* the action for a, with sell below no action below buy.                  *)
(***************************************************************************)
C15_BandingMonotone ==
  fn.op = "signal"
    => LET Rank(action) == IF action = Some("sell") THEN 0
                           ELSE IF action = None THEN 1 ELSE 2
       IN fn.arg[1] <= fn.arg[2] => Rank(fn.out[1]) <= Rank(fn.out[2])

\* a lower score was answered by a sell and a higher one by a buy
C15_Witness ==
  /\ fn.op = "signal"
  /\ fn.arg[1] < fn.arg[2]
  /\ fn.out[1] = Some("sell")
  /\ fn.out[2] = Some("buy")

(***************************************************************************)
(* Claims about the indicators                                             *)
(***************************************************************************)
\* some close is below, or above, the close before it
HasLoss(closes) == \E i \in 1..(Len(closes) - 1) : closes[i + 1] < closes[i]
HasGain(closes) == \E i \in 1..(Len(closes) - 1) : closes[i + 1] > closes[i]

(***************************************************************************)
(* C16: for closes that outnumber the period, the RSI of either script is  *)
(* a value in [0, 100] determined by the closes; it is 100 when the        *)
(* average loss is 0 (no close is below the one before it), and 0 when the *)
(* average loss is positive and the average gain is 0 (some close is       *)
(* below, none above the one before it).                                   *)
(***************************************************************************)
C16_RsiRangeAndExtremes ==
  fn.op = "rsi"
    => /\ fn.out.math >= 0 /\ fn.out.math <= 1000
       /\ fn.out.ds # None
       /\ fn.out.ds[1] >= 0 /\ fn.out.ds[1] <= 10000
       /\ ~HasLoss(fn.arg.closes) => (fn.out.math = 1000 /\ fn.out.ds[1] = 10000)
       /\ (HasLoss(fn.arg.closes) /\ ~HasGain(fn.arg.closes))
            => (fn.out.math = 0 /\ fn.out.ds[1] = 0)

\* the RSI of closes that both rose and fell lies strictly between 0 and 100
C16_Witness ==
  /\ fn.op = "rsi"
  /\ HasLoss(fn.arg.closes) /\ HasGain(fn.arg.closes)
  /\ fn.out.math > 0 /\ fn.out.math < 1000
  /\ fn.out.ds[1] > 0 /\ fn.out.ds[1] < 10000

(***************************************************************************)
(* C17: for a bar sequence with fewer bars than the period, the moving     *)
(* average, the EMA, the RSI and the ATR of that period are undefined      *)
(* (None) in both scripts: none of them is a number given in default.      *)
(***************************************************************************)
C17_ShortSequencesUndefined ==
  fn.op = "short"
    => /\ fn.out.ema = None
       /\ fn.out.ds_ma20 = None
       /\ fn.out.ds_rsi = None
       /\ fn.out.rsi = None
       /\ fn.out.atr = None

(***************************************************************************)
(* C18: ema(values, period) is undefined for fewer than `period` values;   *)
(* otherwise it is seeded with the mean of the first `period` values and   *)
(* then takes value * k + prev * (1 - k), k = 2 / (period + 1), for each   *)
(* of the remaining values once, oldest first.                             *)
(***************************************************************************)
C18_EmaSeededWithFirstValues ==
  fn.op = "ema"
    => LET values == fn.arg.values
           period == fn.arg.period
           seed == (1000 * SumSeq(FirstN(values, period))) \div period
       IN fn.out = IF Len(values) < period THEN None
                   ELSE Some(EmaLoop(seed, DropN(values, period), period))

(***************************************************************************)
(* Claims about the state file                                             *)
(***************************************************************************)
(***************************************************************************)
(* C19: when the state file exists and is corrupt, load_state does not     *)
(* raise: the service starts from the empty state, without histories and   *)
(* without last_run.                                                       *)
(***************************************************************************)
C19_CorruptFileStartsEmpty ==
  (fn.op = "load_state" /\ fn.arg # None /\ ~IsJson(fn.arg))
    => (~fn.out.exc /\ fn.out.val = EmptyState)

(***************************************************************************)
(* C20: whenever a scan of the ticker list finishes, with the state saved  *)
(* at its end, the state file has been overwritten with a complete         *)
(* document, and the histories in it of every symbol that no thread is     *)
(* updating at that moment are the histories in memory.                    *)
(***************************************************************************)
C20_FileEqualsMemoryAfterScan ==
  [][\A t \in MathThreads :
       (/\ script = "math_bot"
        /\ mt[t].pc \in {"et_next", "save_next"}
        /\ mt'[t].pc \in {"et_ret", "et_raised"})
         => /\ file' # None
            /\ IsJson(file')
            /\ \A s \in Symbols :
                 Settled(s)'
                   => file'[1].histories[s] = Dump(state', heap').histories[s]]_vars

(***************************************************************************)
(* C21: when the first TWELVE_RATE_LIMIT calls are recorded at one         *)
(* instant, none of them slept, and every later call is recorded only once *)
(* the first call's timestamp has left the window.                         *)
(***************************************************************************)
\* the first TWELVE_RATE_LIMIT recorded calls bear one timestamp
BurstAtOneInstant ==
  /\ Len(recorded) >= TWELVE_RATE_LIMIT
  /\ \A i \in 1..TWELVE_RATE_LIMIT : recorded[i] = recorded[1]

C21_BurstBeyondLimitWaits ==
  /\ [](BurstAtOneInstant
          => \A i \in (TWELVE_RATE_LIMIT + 1)..Len(recorded) :
               recorded[i] - recorded[1] >= WindowTicks)
  /\ [][(Len(recorded') > Len(recorded) /\ Len(recorded) < TWELVE_RATE_LIMIT)
          => ~slept]_vars

\* ten calls: the ninth read the clock at the instant of the first eight
\* and slept, the tenth was recorded after it
C21_Witness ==
  /\ BurstAtOneInstant
  /\ Len(recorded) = TWELVE_RATE_LIMIT + 2
  /\ rnow >= recorded[1] + WindowTicks
  /\ recorded[TWELVE_RATE_LIMIT + 1] = recorded[1] + WindowTicks + SleepMargin

(***************************************************************************)
(* C22: every sleep that twelve_rate_limit asks for lasts at most          *)
(* TWELVE_WINDOW seconds.                                                  *)
(***************************************************************************)
\* the length of the sleep that caller c has asked for
AskedSleep == rwake - rnow

C22_SleepAtMostWindow ==
  \A c \in Callers :
    (script = "deepseek_bot" /\ rpc[c] = "sleep") => AskedSleep <= WindowTicks

\* C22, amended: every sleep that twelve_rate_limit asks for lasts longer
\* than the safety margin and at most TWELVE_WINDOW seconds plus the margin.
C22_SleepAtMostWindowPlusMargin ==
  \A c \in Callers :
    (script = "deepseek_bot" /\ rpc[c] = "sleep")
      => /\ AskedSleep > SleepMargin
         /\ AskedSleep <= WindowTicks + SleepMargin

\* a caller sleeps for less than the window while the other waits for the lock
C22_Witness ==
  \E c \in Callers, d \in Callers :
    /\ rpc[c] = "sleep" /\ rpc[d] = "acquire"
    /\ AskedSleep < WindowTicks

(***************************************************************************)
(* C23: an admission that slept checks again before it appends: the        *)
(* timestamps that expired during the sleep are pruned and fewer than      *)
(* TWELVE_RATE_LIMIT are left when the new timestamp is appended.          *)
(***************************************************************************)
C23_RecheckAfterSleep ==
  [][\A c \in Callers :
       (/\ script = "deepseek_bot"
        /\ rpc[c] = "append" /\ rpc'[c] = "admitted"
        /\ slept)
         => /\ Len(Prune(twelve_calls, clock)) < TWELVE_RATE_LIMIT
            /\ twelve_calls' = Append(Prune(twelve_calls, clock), clock)]_vars

(***************************************************************************)
(* C25: every request for bars that fetch_twelvedata_bars sends is         *)
(* preceded by exactly one admission of twelve_rate_limit made by the same *)
(* call, in get_stock_summary and on the BUY path of place_order: a        *)
(* request is sent only by a caller whose admission is unused and uses it  *)
(* up, and a caller gets an admission only by recording a call while it    *)
(* holds the lock.                                                         *)
(***************************************************************************)
\* caller c sends its request for bars in this step
Requests(c) == scan[c].fetched = None /\ scan'[c].fetched # None
\* caller c is admitted in this step
Admits(c) == rpc[c] # "admitted" /\ rpc'[c] = "admitted"

C25_OneAdmissionPerRequest ==
  [][\A c \in Callers :
       /\ Requests(c) => rpc[c] = "admitted" /\ rpc'[c] # "admitted"
       /\ (rpc[c] = "admitted" /\ rpc'[c] # "admitted") => Requests(c)
       /\ Admits(c) => /\ rpc[c] = "append"
                       /\ twelve_lock = c
                       /\ recorded' = Append(recorded, clock')]_vars

\* a place_order call holds the bars it asked for, after the scan of another
\* caller got the bars of its first ticker
C25_Witness ==
  \E c \in Callers, d \in Callers :
    /\ rpc[c] = "fetched" /\ scan[c].order # None
    /\ scan[d].idx > 1
    /\ Len(recorded) >= 2

(***************************************************************************)
(* C24: an entry of INTRADAY_CACHE is never removed, and it changes only   *)
(* in the step in which a download for its symbol comes back with bars,    *)
(* to these bars and the time the call read at line 71: a hit, a download  *)
(* that raises, one without bars and a download for another symbol leave   *)
(* it as it is.                                                            *)
(***************************************************************************)
\* thread t gets bars for symbol s from yf.download in this step
GoodFetch(t, s) ==
  /\ mt[t].pc = "gid_inflight" /\ mt'[t].pc = "cts_check"
  /\ Sym(t) = s
  /\ mt'[t].data.rows > 0

CycleStarts == mt["loop"].pc = "bl_top" /\ mt'["loop"].pc = "et_start"
\* the cycle of bot_loop is over in this step
CycleEnds == mt["loop"].pc = "et_ret" /\ mt'["loop"].pc = "bl_sleep"
\* two times in the same clock hour of the same day
SameHourOfDay(a, b) == a \div HourTicks = b \div HourTicks

C27_OneCyclePerMarketHour ==
  [][script = "math_bot"
       => /\ CycleStarts
               => /\ TimeOfDay(clock') >= MARKET_OPEN
                  /\ TimeOfDay(clock') <= MARKET_CLOSE
                  /\ state.last_run # None
                       => /\ HourOf(state.last_run[1]) # HourOf(clock')
                          /\ ~SameHourOfDay(state.last_run[1], clock')
                  /\ mt'["loop"].loopnow = clock'
          /\ CycleEnds
               => /\ state'.last_run = Some(mt["loop"].loopnow)
                  /\ file' # None /\ file'[1].last_run = state'.last_run]_vars

\* a second cycle has started, in the hour after that of the first
C27_Witness ==
  /\ script = "math_bot"
  /\ mt["loop"].budget = MaxLoopRuns
  /\ mt["loop"].pc = "et_start"
  /\ state.last_run # None
  /\ clock \div HourTicks = state.last_run[1] \div HourTicks + 1

(***************************************************************************)
(* C26: with every runnable thread scheduled in the end, a caller that     *)
(* has entered twelve_rate_limit gets its call recorded and returns, and   *)
(* does not hold the lock then.                                            *)
(***************************************************************************)
C26_EveryAdmissionReturns ==
  \A c \in Callers :
    /\ (rpc[c] = "acquire") ~> (rpc[c] = "admitted" /\ twelve_lock # c)
    /\ (rpc[c] = "admitted") ~> (rpc[c] = "idle" /\ twelve_lock # c)

\* a caller that slept has recorded its call and released the lock, while
\* another caller was waiting for it
C26_Witness ==
  \E c \in Callers, d \in Callers :
    /\ rpc[c] = "admitted" /\ slept /\ twelve_lock = 0
    /\ rpc[d] = "acquire"
    /\ Len(recorded) > TWELVE_RATE_LIMIT

(***************************************************************************)
(* C28: run_bot calls execute_trading_logic at most once for each of the   *)
(* three trigger times of a day (10 minutes after the open, mid-session,   *)
(* 10 minutes before the close), and a trigger whose execution raised is   *)
(* in already_ran like one whose execution returned.                       *)
(***************************************************************************)
C28_EachTriggerOncePerDay ==
  /\ [](script = "ai_bot"
          => \A i \in 1..Len(ai.fired) :
               /\ \A j \in 1..Len(ai.fired) : ai.fired[i] = ai.fired[j] => i = j
               /\ \E k \in 1..3 : ai.fired[i] = Triggers(ai.fired[i])[k])
  /\ [][(script = "ai_bot" /\ Len(ai'.fired) > Len(ai.fired))
          => ai'.fired[Len(ai'.fired)] \in ai'.already_ran]_vars

\* on the second day the loop has read the time again within 30 s of a
\* trigger it had run, the execution of which raised, and has gone to sleep
C28_Witness ==
  /\ script = "ai_bot"
  /\ ai.pc = "rb_sleep" /\ ai.raised
  /\ Len(ai.fired) = 4
  /\ ai.fired[4] = ai.fired[1] + DayTicks
  /\ ai.now > ai.fired[4]
  /\ Abs(ai.now - ai.fired[4]) < TRIGGER_SLACK * TicksPerSecond
  /\ ai.fired[4] \in ai.already_ran

(***************************************************************************)
(* C29: in one run of execute_trading_logic place_order is called at most  *)
(* once per symbol, for the first line that names the symbol and with the  *)
(* signal of that line; in ai_bot.py the signal handed over is one of the  *)
(* five labels, HOLD when the line bears none of them.                     *)
(***************************************************************************)
\* line k of the answer names symbol y
Names(k, y) == ai.lines[k].colon /\ UpperStrip[ai.lines[k].sym] = y

C29_OneOrderCallPerSymbol ==
  (script \in {"ai_bot", "deepseek_bot"} /\ ai.pc \in {"ex_line", "ex_done"})
    => /\ \A i \in 1..Len(ai.placed), j \in 1..Len(ai.placed) :
            ai.placed[i].symbol = ai.placed[j].symbol => i = j
       /\ \A i \in 1..Len(ai.placed) :
            LET call == ai.placed[i]
                raw == UpperStrip[ai.lines[call.line].sig]
            IN /\ Names(call.line, call.symbol)
               /\ \A k \in 1..(call.line - 1) : ~Names(k, call.symbol)
               /\ script = "ai_bot"
                    => /\ call.signal \in LABELS
                       /\ call.signal = IF raw \in LABELS THEN raw ELSE "HOLD"
       /\ \A k \in 1..Len(ai.lines) :
            (k < ai.idx /\ ai.lines[k].colon)
              => \E i \in 1..Len(ai.placed) :
                   ai.placed[i].symbol = UpperStrip[ai.lines[k].sym]

\* ai_bot.py has gone through three lines: two name one symbol, and the
\* line of the other symbol bears no label
C29_Witness ==
  /\ script = "ai_bot"
  /\ ai.pc = "ex_done"
  /\ Len(ai.lines) = 3
  /\ Names(1, "AAPL") /\ Names(3, "AAPL")
  /\ ai.lines[1].sig # ai.lines[3].sig
  /\ Names(2, "MSFT") /\ UpperStrip[ai.lines[2].sig] \notin LABELS
  /\ Len(ai.placed) = 2
  /\ ai.placed[2].signal = "HOLD"

(***************************************************************************)
(* C30: at most one thread is inside the `with trade_lock` block of        *)
(* place_order; a buy order is never submitted for a symbol of which a     *)
(* position is held, and a sell order is submitted only when a position is *)
(* held, for the quantity held.                                            *)
(***************************************************************************)
\* thread t is inside the `with trade_lock` block
InBlock(t) == ai.th[t].pc \in {"po_account", "po_position", "po_price", "po_submit"}

C30_OrdersSerialisedAndByPosition ==
  (script = "ai_bot" /\ ai.pc = "orders")
    => /\ \A t \in AiThreads, u \in AiThreads : InBlock(t) /\ InBlock(u) => t = u
       /\ \A i \in 1..Len(ai.orders) :
            LET o == ai.orders[i]
            IN /\ o.side = "buy" => o.held = 0
               /\ o.side = "sell" => o.held > 0 /\ o.qty = o.held

====
